---- MODULE Spec2Model ----
(***************************************************************************)
(* The HTML5 audio-node pool (Html5AudioPool) and the loader that wraps it *)
(* (MediaLoader) of the buzzer audio engine.                               *)
(*                                                                         *)
(* MediaLoader.js is modelled from its source.  Html5AudioPool.js is not   *)
(* part of the available sources: only its unit tests and its one caller   *)
(* (MediaLoader) are.  The Pool* operators are therefore written from the  *)
(* design document, except where the unit tests pin the behaviour down.    *)
(***************************************************************************)
EXTENDS Integers, Sequences, FiniteSets, TLC

(* ------------------------------ bounds -------------------------------- *)

NumUrls == 2
NumGroups == 2
NumSounds == 2
\* The largest value of maxNodesPerSource the model constructs a pool with.
MaxNodesLimit == 2
\* The number of loads that may be buffering at once.
MaxBuffering == 1
\* The number of Audio elements that may be referenced at once.
NumAudios == 2
Urls == 1..NumUrls
Groups == 1..NumGroups
Sounds == 1..NumSounds
Audios == 1..NumAudios

\* `groupId` left undefined by the caller (MediaLoader._load(url)).
NoGroup == 0
\* `soundId: null`, a node reserved for a group and not bound to a sound.
Null == 0
\* No audio returned (the call threw).
NoAudio == 0

GroupArgs == Groups \cup {NoGroup}

\* No sound has been constructed.
NoSoundYet == [backend |-> "none"]

\* The engine after `new Engine()`: not set up, no context, no gain node, an
\* empty queue.  `trail` and `fired` are the states set and the events fired by
\* the last call, `result` how it ended.
\* `buzzes` and `sounds` are _buzzesArray and _soundsArray; `playing` and
\* `destroyed` are the buzzes and the sounds that play and that were destroyed;
\* `teardowns` counts the runs of cleanUp.
NewEngine ==
  [state |-> "notready", ctx |-> "none", gain |-> FALSE, muted |-> FALSE,
   volume |-> 1, gainValue |-> 0,
   suspendP |-> FALSE, resumeP |-> FALSE, closeP |-> FALSE,
   afterSuspend |-> <<>>, afterResume |-> <<>>,
   interval |-> FALSE, bufferLoader |-> "none", mediaLoader |-> "none",
   buzzes |-> <<>>, sounds |-> <<>>, playing |-> {}, destroyed |-> {},
   teardowns |-> 0,
   trail |-> <<>>, fired |-> <<>>, result |-> "ok"]

VARIABLES
  maxNodesPerSource,  \* Html5AudioPool._maxNodesPerSource
  resourceNodesMap,   \* Html5AudioPool._resourceNodesMap
  bufferingAudios,    \* MediaLoader._bufferingAudios
  lastOp,             \* the last call made and how it ended (history)
  disposed,           \* MediaLoader._disposed
  loads,              \* the _load calls made: their promise and their closures
  batch,              \* the last load(urls) with an array: Promise.all of its _loads
  sound,              \* a sound (BufferBuzz or MediaBuzz): its fields
  clock,              \* AudioContext.currentTime
  engine              \* the Engine: its state, its context and its queue

loaderVars == <<disposed, loads, batch>>

soundVars == <<sound, clock>>

engineVars == <<engine>>

vars == <<maxNodesPerSource, resourceNodesMap, bufferingAudios, lastOp, loaderVars,
          soundVars, engineVars>>

(* --------------------------- sequence helpers -------------------------- *)

Range(s) == {s[i] : i \in 1..Len(s)}

RemoveAt(s, i) == SubSeq(s, 1, i - 1) \o SubSeq(s, i + 1, Len(s))

Min(S) == CHOOSE x \in S : \A y \in S : x <= y

\* The audio elements of a list of {audio, soundId} nodes, in order.
AudiosOf(nodes) == [i \in 1..Len(nodes) |-> nodes[i].audio]

IsFree(node) == node.soundId = Null

IsBound(node) == node.soundId # Null

FreeNodes(nodes) == SelectSeq(nodes, IsFree)

BoundNodes(nodes) == SelectSeq(nodes, IsBound)

(* ------------------------------ the pool ------------------------------- *)

EmptyAllocated == [g \in {} |-> <<>>]

EmptyEntry == [unallocated |-> <<>>, allocated |-> EmptyAllocated]

EmptyMap == [u \in {} |-> EmptyEntry]

RECURSIVE SumLen(_, _)
SumLen(allocated, gs) ==
  IF gs = {} THEN 0
  ELSE LET g == Min(gs) IN Len(allocated[g]) + SumLen(allocated, gs \ {g})

\* The number of nodes of a resource: unallocated plus allocated to any group.
TotalNodes(m, url) ==
  IF url \notin DOMAIN m THEN 0
  ELSE Len(m[url].unallocated) + SumLen(m[url].allocated, DOMAIN m[url].allocated)

AllocatedAudios(entry) ==
  UNION {Range(AudiosOf(entry.allocated[g])) : g \in DOMAIN entry.allocated}

EntryAudios(entry) == Range(entry.unallocated) \cup AllocatedAudios(entry)

PoolAudios(m) == UNION {EntryAudios(m[u]) : u \in DOMAIN m}

\* The map with an (empty) entry for url made if there is none.
CreateSrc(m, url) ==
  IF url \in DOMAIN m THEN m
  ELSE [u \in DOMAIN m \cup {url} |-> IF u = url THEN EmptyEntry ELSE m[u]]

\* The allocated map with node appended to the list of group g (made if absent).
PushToGroup(allocated, g, node) ==
  [k \in DOMAIN allocated \cup {g} |->
     IF k = g
     THEN (IF g \in DOMAIN allocated THEN Append(allocated[g], node) ELSE <<node>>)
     ELSE allocated[k]]

\* How a call ended: returned, or threw an Error whose message names a resource
\* or a group.
Ok == [error |-> "none", name |-> 0]

\* `Maximum nodes reached for resource ${url}`
PoolExhausted(url) == [error |-> "PoolExhausted", name |-> url]

\* `No free audio nodes available in the group ${groupId}`
NoFreeNodes(g) == [error |-> "NoFreeNodes", name |-> g]

Thrown(m, err) == [map |-> m, result |-> err, audio |-> NoAudio]

Returned(m, a) == [map |-> m, result |-> Ok, audio |-> a]

\* allocateForSource(url): a new Audio (fresh) in `unallocated`, or the throw
\* "Maximum nodes reached for resource <url>".
PoolAllocateForSource(m, url, fresh) ==
  LET m1 == CreateSrc(m, url) IN
  IF TotalNodes(m1, url) < maxNodesPerSource
  THEN Returned([m1 EXCEPT ![url].unallocated = Append(@, fresh)], fresh)
  ELSE Thrown(m1, PoolExhausted(url))

\* allocateForGroup that makes a new Audio without looking at the maximum.
PoolAllocateForGroup_NoLimit(m, url, g, fresh) ==
  LET m1 == CreateSrc(m, url)
      un == m1[url].unallocated
  IN IF Len(un) > 0
     THEN LET a == un[Len(un)] IN
          Returned([m1 EXCEPT ![url].unallocated = SubSeq(un, 1, Len(un) - 1),
                              ![url].allocated = PushToGroup(@, g,
                                  [audio |-> a, soundId |-> Null])], a)
     ELSE Returned([m1 EXCEPT ![url].allocated = PushToGroup(@, g,
                                  [audio |-> fresh, soundId |-> Null])], fresh)

\* allocateForGroup(url, groupId): a node popped from `unallocated`, else a new
\* Audio (fresh) if below the maximum, else the throw.
PoolAllocateForGroup(m, url, g, fresh) ==
  LET m1 == CreateSrc(m, url)
      un == m1[url].unallocated
  IN IF Len(un) > 0
     THEN LET a == un[Len(un)] IN
          Returned([m1 EXCEPT ![url].unallocated = SubSeq(un, 1, Len(un) - 1),
                              ![url].allocated = PushToGroup(@, g,
                                  [audio |-> a, soundId |-> Null])], a)
     ELSE IF TotalNodes(m1, url) < maxNodesPerSource
          THEN Returned([m1 EXCEPT ![url].allocated = PushToGroup(@, g,
                                  [audio |-> fresh, soundId |-> Null])], fresh)
          ELSE Thrown(m1, PoolExhausted(url))

HasGroup(m, url, g) == url \in DOMAIN m /\ g \in DOMAIN m[url].allocated

\* The index of the first node of the list with the given soundId (0: none).
FirstWithSound(nodes, s) ==
  IF \E i \in 1..Len(nodes) : nodes[i].soundId = s
  THEN Min({i \in 1..Len(nodes) : nodes[i].soundId = s})
  ELSE 0

\* allocateForSound(url, groupId, soundId): binds the first node of the group
\* whose soundId is null, or throws "No free audio nodes available in the
\* group <groupId>".
PoolAllocateForSound(m, url, g, s) ==
  IF ~HasGroup(m, url, g) THEN Thrown(m, NoFreeNodes(g))
  ELSE LET nodes == m[url].allocated[g]
           i == FirstWithSound(nodes, Null)
       IN IF i = 0 THEN Thrown(m, NoFreeNodes(g))
          ELSE Returned([m EXCEPT ![url].allocated[g][i].soundId = s],
                        nodes[i].audio)

\* releaseForSource(url): the whole entry of url is discarded.
PoolReleaseForSource(m, url) == [u \in DOMAIN m \ {url} |-> m[u]]

\* releaseForGroup(url, groupId, free): the nodes of the group (only those not
\* bound to a sound when `free`) leave the pool; without `free` the group key
\* is deleted.  The unit tests fix that `unallocated` keeps its length.
PoolReleaseForGroup(m, url, g, free) ==
  IF ~HasGroup(m, url, g) THEN m
  ELSE IF free
       THEN [m EXCEPT ![url].allocated[g] = BoundNodes(@)]
       ELSE [m EXCEPT ![url].allocated =
                         [k \in DOMAIN @ \ {g} |-> @[k]]]

\* releaseForSound(url, groupId, soundId): the node bound to soundId is unbound.
PoolReleaseForSound(m, url, g, s) ==
  IF ~HasGroup(m, url, g) THEN m
  ELSE LET i == FirstWithSound(m[url].allocated[g], s) IN
       IF i = 0 THEN m ELSE [m EXCEPT ![url].allocated[g][i].soundId = Null]

\* destroyAllocatedAudio(url, groupId, audio): the node of the audio is removed
\* from the list of the group and not returned to `unallocated`.
PoolDestroyAllocatedAudio(m, url, g, a) ==
  IF ~HasGroup(m, url, g) THEN m
  ELSE LET nodes == m[url].allocated[g]
           hit == {i \in 1..Len(nodes) : nodes[i].audio = a}
       IN IF hit = {} THEN m
          ELSE [m EXCEPT ![url].allocated[g] = RemoveAt(nodes, Min(hit))]

RECURSIVE FreedAudios(_, _)
FreedAudios(allocated, gs) ==
  IF gs = {} THEN <<>>
  ELSE LET g == Min(gs) IN
       AudiosOf(FreeNodes(allocated[g])) \o FreedAudios(allocated, gs \ {g})

CleanUpEntry(entry) ==
  LET keep == {g \in DOMAIN entry.allocated : BoundNodes(entry.allocated[g]) # <<>>}
  IN [unallocated |-> entry.unallocated
                        \o FreedAudios(entry.allocated, DOMAIN entry.allocated),
      allocated |-> [g \in keep |-> BoundNodes(entry.allocated[g])]]

\* cleanUp that leaves the freed node in its group as well.
CleanUpEntry_KeepsNodes(entry) ==
  [unallocated |-> entry.unallocated
                     \o FreedAudios(entry.allocated, DOMAIN entry.allocated),
   allocated |-> entry.allocated]

PoolCleanUp_KeepsNodes(m) == [u \in DOMAIN m |-> CleanUpEntry_KeepsNodes(m[u])]

\* cleanUp(): every node with no sound goes back to `unallocated`; a group left
\* with no node loses its key.
PoolCleanUp(m) == [u \in DOMAIN m |-> CleanUpEntry(m[u])]

\* hasFreeNodes(url, groupId)
PoolHasFreeNodes(m, url, g) ==
  \/ HasGroup(m, url, g) /\ FirstWithSound(m[url].allocated[g], Null) # 0
  \/ url \in DOMAIN m /\ m[url].unallocated # <<>>

(* ----------------------------- the loader ------------------------------ *)

BufferedAudios(b) == {b[i].audio : i \in 1..Len(b)}

\* The Audio elements something still refers to.
Live(m, b) == PoolAudios(m) \cup BufferedAudios(b)

\* `new Audio()`: an element nothing refers to (NoAudio: the model has none left).
FreshAudio(m, b) ==
  LET free == Audios \ Live(m, b) IN
  IF free = {} THEN NoAudio ELSE Min(free)

\* What a call leaves: the pool's map, the buffering list, how the call ended
\* (Ok or the error thrown) and the audio returned.
Outcome(m, b, result, a) ==
  [map |-> m, buffering |-> b, result |-> result, audio |-> a]

\* _cleanUp(audioObj) of the entry at index i: the removeEventListener calls
\* are handed `audioObj[audioObj]`, which is undefined, and remove no listener;
\* the entry is spliced out.
CleanUpAt(b, i) == RemoveAt(b, i)

\* `find(obj => obj.audio === audio)` followed by `audioObj && _cleanUp(audioObj)`.
CleanUpFirstOf(b, a) ==
  LET hit == {i \in 1..Len(b) : b[i].audio = a} IN
  IF hit = {} THEN b ELSE CleanUpAt(b, Min(hit))

\* An event of a runs every closure listening on a, each doing the
\* find-and-_cleanUp above once.  Each entry of a was pushed together with a
\* closure on a and no closure is ever removed, so the closures are at least
\* as many as the entries of a: no entry of a is left.
CleanUpAllOf(b, a) == SelectSeq(b, LAMBDA e : e.audio # a)

\* _load with the two pool calls of its first line exchanged.
Load_Exchanged(m, b, url, groupId, ready) ==
  LET fresh == FreshAudio(m, b)
      r == IF groupId # NoGroup
           THEN PoolAllocateForSource(m, url, fresh)
           ELSE PoolAllocateForGroup(m, url, groupId, fresh)
      a == r.audio
      pushed == Append(b, [url |-> url, groupId |-> groupId, audio |-> a])
  IN IF r.result # Ok THEN Outcome(r.map, b, r.result, NoAudio)
     ELSE IF a = fresh THEN Outcome(r.map, pushed, Ok, a)
     ELSE IF ready THEN Outcome(r.map, CleanUpFirstOf(pushed, a), Ok, a)
     ELSE Outcome(r.map, pushed, Ok, a)

\* _load(url, groupId), up to the promise it returns.  An element the pool made
\* in this call has no src; one it took from `unallocated` was given its src by
\* the _load that made it, and its readyState is the browser's (ready).
LoadWith(m, b, url, groupId, ready, fresh) ==
  LET r == IF groupId # NoGroup
           THEN PoolAllocateForGroup(m, url, groupId, fresh)
           ELSE PoolAllocateForSource(m, url, fresh)
      a == r.audio
      pushed == Append(b, [url |-> url, groupId |-> groupId, audio |-> a])
  IN IF r.result # Ok THEN Outcome(r.map, b, r.result, NoAudio)  \* the executor threw
     ELSE IF a = fresh THEN Outcome(r.map, pushed, Ok, a)         \* audio.src = url; audio.load()
     ELSE IF ready THEN Outcome(r.map, CleanUpFirstOf(pushed, a), Ok, a)  \* onCanPlayThrough()
     ELSE Outcome(r.map, pushed, Ok, a)

\* _load(url, groupId) where `new Audio()` is the first element nothing refers to.
Load(m, b, url, groupId, ready) == LoadWith(m, b, url, groupId, ready, FreshAudio(m, b))

\* MediaLoader.load(url) with a single url.
load(m, b, url, ready) == Load(m, b, url, NoGroup, ready)

\* allocateForGroup that does not hand the group on to _load.
allocateForGroup_NoGroup(m, b, url, groupId, ready) == Load(m, b, url, NoGroup, ready)

\* MediaLoader.allocateForGroup(url, groupId)
allocateForGroup(m, b, url, groupId, ready) == Load(m, b, url, groupId, ready)

\* allocateForSound that hands the ids to the pool in the wrong order.
allocateForSound_Swapped(m, b, src, groupId, soundId) ==
  LET r == PoolAllocateForSound(m, src, soundId, groupId) IN
  Outcome(r.map, b, r.result, r.audio)

\* allocateForSound that swallows the pool's error and returns nothing.
allocateForSound_Swallows(m, b, src, groupId, soundId) ==
  LET r == PoolAllocateForSound(m, src, groupId, soundId) IN
  Outcome(r.map, b, Ok, r.audio)

\* MediaLoader.allocateForSound(src, groupId, soundId)
allocateForSound(m, b, src, groupId, soundId) ==
  LET r == PoolAllocateForSound(m, src, groupId, soundId) IN
  Outcome(r.map, b, r.result, r.audio)

\* The entries of the buffering list left by
\* `filter(a => a.groupId === groupId).forEach(a => this._cleanUp(a))`.
CleanUpGroup(b, groupId) == SelectSeq(b, LAMBDA e : e.groupId # groupId)

\* releaseForGroup that does not hand `free` on: the pool takes its default.
releaseForGroup_DropsFree(m, b, url, groupId, free) ==
  Outcome(PoolReleaseForGroup(m, url, groupId, FALSE), CleanUpGroup(b, groupId),
          Ok, NoAudio)

\* releaseForGroup that releases the free nodes only, whatever `free` is.
releaseForGroup_FreeOnly(m, b, url, groupId, free) ==
  Outcome(PoolReleaseForGroup(m, url, groupId, TRUE), CleanUpGroup(b, groupId),
          Ok, NoAudio)

\* MediaLoader.releaseForGroup(url, groupId, free)
releaseForGroup(m, b, url, groupId, free) ==
  Outcome(PoolReleaseForGroup(m, url, groupId, free), CleanUpGroup(b, groupId),
          Ok, NoAudio)

\* releaseForSound that hands the ids to the pool in the wrong order.
releaseForSound_Swapped(m, b, src, groupId, soundId) ==
  Outcome(PoolReleaseForSound(m, src, soundId, groupId), b, Ok, NoAudio)

\* MediaLoader.releaseForSound(src, groupId, soundId)
releaseForSound(m, b, src, groupId, soundId) ==
  Outcome(PoolReleaseForSound(m, src, groupId, soundId), b, Ok, NoAudio)

\* MediaLoader.destroyAllocatedAudio(src, groupId, audio)
destroyAllocatedAudio(m, b, src, groupId, a) ==
  Outcome(PoolDestroyAllocatedAudio(m, src, groupId, a), b, Ok, NoAudio)

\* cleanUp that never reaches the pool.
cleanUp_Nothing(m, b) == Outcome(m, b, Ok, NoAudio)

\* MediaLoader.cleanUp()
cleanUp(m, b) == Outcome(PoolCleanUp(m), b, Ok, NoAudio)

\* The closure onCanPlayThrough of every _load that returned a.
onCanPlayThrough(m, b, a) == Outcome(m, CleanUpAllOf(b, a), Ok, NoAudio)

\* The url whose pool entry holds a, and the group holding it (NoGroup: none).
UrlOf(m, a) == CHOOSE u \in DOMAIN m : a \in EntryAudios(m[u])

GroupOf(m, u, a) ==
  LET gs == {g \in DOMAIN m[u].allocated : a \in Range(AudiosOf(m[u].allocated[g]))}
  IN IF gs = {} THEN NoGroup ELSE Min(gs)

\* The closure onError of every _load that returned a, each calling
\* destroyAllocatedAudio(url, groupId, audio) with the url and groupId of its
\* _load.  A node enters allocated[g] only in a _load(url, g) that returns it, so
\* a closure of (url, g) is on every audio of allocated[g]; the closures of other
\* groups and of _load(url) find no node of the audio in their list.
onError(m, b, a) ==
  LET left == IF a \notin PoolAudios(m) THEN m
              ELSE LET u == UrlOf(m, a) IN
                   PoolDestroyAllocatedAudio(m, u, GroupOf(m, u, a), a)
  IN Outcome(left, CleanUpAllOf(b, a), Ok, NoAudio)

(* ----------------------------- the calls ------------------------------- *)

MkOp(op, result, note, url, g, s) ==
  [op |-> op, result |-> result, note |-> note, url |-> url, group |-> g, sound |-> s]

\* The state a call leaves, and the record of the call.
Becomes(r, op) ==
  /\ resourceNodesMap' = r.map
  /\ bufferingAudios' = r.buffering
  /\ lastOp' = op
  /\ UNCHANGED <<maxNodesPerSource, loaderVars, soundVars, engineVars>>

\* The model can follow a load: a place is left in the buffering list and, when
\* the pool made a new Audio, an identity was left for it.
LoadInBounds(b, r) == Len(b) < MaxBuffering /\ (r.result = Ok => r.audio # NoAudio)

LoadNote(r) ==
  IF r.result # Ok THEN "thrown"
  ELSE IF r.audio \in PoolAudios(resourceNodesMap) THEN "reused" ELSE "created"

CallLoad(url) ==
  \E ready \in BOOLEAN :
    LET r == load(resourceNodesMap, bufferingAudios, url, ready) IN
    /\ LoadInBounds(bufferingAudios, r)
    /\ Becomes(r, MkOp("load", r.result, LoadNote(r), 0, NoGroup, Null))

CallAllocateForGroup(url, g) ==
  \E ready \in BOOLEAN :
    LET r == allocateForGroup(resourceNodesMap, bufferingAudios, url, g, ready) IN
    /\ LoadInBounds(bufferingAudios, r)
    /\ Becomes(r, MkOp("allocateForGroup", r.result, LoadNote(r), 0, NoGroup, Null))

\* "first": no node of the group was bound to the sound before the call.
CallAllocateForSound(url, g, s) ==
  LET r == allocateForSound(resourceNodesMap, bufferingAudios, url, g, s) IN
  Becomes(r, IF r.result = Ok
             THEN MkOp("allocateForSound", Ok,
                       IF FirstWithSound(resourceNodesMap[url].allocated[g], s) = 0
                       THEN "first" ELSE "again",
                       url, g, s)
             ELSE MkOp("allocateForSound", r.result, "", 0, NoGroup, Null))

CallReleaseForGroup(url, g, free) ==
  Becomes(releaseForGroup(resourceNodesMap, bufferingAudios, url, g, free),
          MkOp("releaseForGroup", Ok,
               IF ~HasGroup(resourceNodesMap, url, g) THEN "nogroup"
               ELSE IF resourceNodesMap[url].allocated[g] = <<>> THEN "empty"
               ELSE IF ~free THEN "all"
               ELSE IF /\ FreeNodes(resourceNodesMap[url].allocated[g]) # <<>>
                       /\ BoundNodes(resourceNodesMap[url].allocated[g]) # <<>>
                    THEN "free-mixed" ELSE "free",
               0, NoGroup, Null))

\* "roundtrip": the call undoes the allocateForSound made just before it.
CallReleaseForSound(url, g, s) ==
  Becomes(releaseForSound(resourceNodesMap, bufferingAudios, url, g, s),
          MkOp("releaseForSound", Ok,
               IF lastOp = MkOp("allocateForSound", Ok, "first", url, g, s)
               THEN "roundtrip" ELSE "",
               0, NoGroup, Null))

CallDestroyAllocatedAudio(url, g, a) ==
  Becomes(destroyAllocatedAudio(resourceNodesMap, bufferingAudios, url, g, a),
          MkOp("destroyAllocatedAudio", Ok, "", 0, NoGroup, Null))

CallCleanUp ==
  Becomes(cleanUp(resourceNodesMap, bufferingAudios),
          MkOp("cleanUp", Ok,
               IF lastOp.op = "releaseForSound" /\ lastOp.note = "roundtrip"
               THEN "roundtrip"
               ELSE IF \E u \in DOMAIN resourceNodesMap :
                         \E k \in DOMAIN resourceNodesMap[u].allocated :
                           FreeNodes(resourceNodesMap[u].allocated[k]) # <<>>
                    THEN "moved" ELSE "",
               0, NoGroup, Null))

\* The element a fires `canplaythrough`.
CanPlayThroughEvent(a) ==
  /\ a \in Live(resourceNodesMap, bufferingAudios)
  /\ Becomes(onCanPlayThrough(resourceNodesMap, bufferingAudios, a),
             MkOp("canplaythrough", Ok, "", 0, NoGroup, Null))

\* The element a fires `error`.
ErrorEvent(a) ==
  /\ a \in Live(resourceNodesMap, bufferingAudios)
  /\ Becomes(onError(resourceNodesMap, bufferingAudios, a),
             MkOp("error", Ok, "", 0, NoGroup, Null))

Init ==
  /\ maxNodesPerSource \in 1..MaxNodesLimit
  /\ resourceNodesMap = EmptyMap
  /\ bufferingAudios = <<>>
  /\ lastOp = MkOp("new", Ok, "", 0, NoGroup, Null)
  /\ disposed = FALSE
  /\ loads = <<>>
  /\ batch = [urls |-> <<>>, ids |-> <<>>]
  /\ sound = NoSoundYet
  /\ clock = 0
  /\ engine = NewEngine

Next ==
  \/ \E url \in Urls : CallLoad(url)
  \/ \E url \in Urls, g \in Groups : CallAllocateForGroup(url, g)
  \/ \E url \in Urls, g \in Groups, s \in Sounds : CallAllocateForSound(url, g, s)
  \/ \E url \in Urls, g \in Groups, free \in BOOLEAN : CallReleaseForGroup(url, g, free)
  \/ \E url \in Urls, g \in Groups, s \in Sounds : CallReleaseForSound(url, g, s)
  \/ \E url \in Urls, g \in GroupArgs, a \in Audios : CallDestroyAllocatedAudio(url, g, a)
  \/ CallCleanUp
  \/ \E a \in Audios : CanPlayThroughEvent(a)
  \/ \E a \in Audios : ErrorEvent(a)

Spec == Init /\ [][Next]_vars

(* ------------------------------ the claims ----------------------------- *)

\* The positions of a pool entry: <<0, i>> is unallocated[i], <<g, i>> is
\* allocated[g][i].
Positions(entry) ==
  {<<0, i>> : i \in 1..Len(entry.unallocated)}
    \cup UNION {{<<g, i>> : i \in 1..Len(entry.allocated[g])} : g \in DOMAIN entry.allocated}

AudioAt(entry, pos) ==
  IF pos[1] = 0 THEN entry.unallocated[pos[2]] ELSE entry.allocated[pos[1]][pos[2]].audio

\* The number of handles of url that the pool holds.
HandleCount(m, url) == IF url \in DOMAIN m THEN Cardinality(Positions(m[url])) ELSE 0

\* The places (url, position) where the pool holds the audio a.
PlacesOf(m, a) ==
  {<<u, pos>> \in UNION {{<<v, q>> : q \in Positions(m[v])} : v \in DOMAIN m} :
     AudioAt(m[u], pos) = a}

Unallocated(m, url) == IF url \in DOMAIN m THEN m[url].unallocated ELSE <<>>

GroupNodes(m, url, g) == IF HasGroup(m, url, g) THEN m[url].allocated[g] ELSE <<>>

GroupAudios(m, url, g) == Range(AudiosOf(GroupNodes(m, url, g)))

GroupKeys(m, url) == IF url \in DOMAIN m THEN DOMAIN m[url].allocated ELSE {}

\* C1: for every url and after any sequence of calls, the handles of the url
\* (unallocated plus those of all groups) are never more than the maximum.
C1_HandlesWithinMaximum ==
  \A url \in Urls : HandleCount(resourceNodesMap, url) <= maxNodesPerSource

\* A url is at its maximum and the last allocation made a new handle.
C1_Witness ==
  /\ lastOp.op \in {"load", "allocateForGroup"}
  /\ lastOp.note = "created"
  /\ \E url \in Urls : HandleCount(resourceNodesMap, url) = maxNodesPerSource

\* C2: in every reachable state each handle is in exactly one place: in
\* `unallocated` or in the list of one group, never in two lists and never twice
\* in one list.
C2_HandleInOnePlace ==
  \A a \in PoolAudios(resourceNodesMap) :
    Cardinality(PlacesOf(resourceNodesMap, a)) = 1

\* A load has just made a handle in `unallocated` of a url one of whose groups
\* holds a handle too.
C2_Witness ==
  /\ lastOp.op = "load"
  /\ lastOp.note = "created"
  /\ \E url \in Urls, g \in Groups :
       /\ Unallocated(resourceNodesMap, url) # <<>>
       /\ GroupNodes(resourceNodesMap, url, g) # <<>>

\* C3: with the handles of url at the maximum, allocateForSource(url) throws
\* PoolExhausted naming url, and allocateForGroup(url, g) throws it if moreover
\* `unallocated` is empty; the pool is unchanged by the failed call.
C3_ExhaustedAtMaximum ==
  \A url \in Urls, ready \in BOOLEAN :
    HandleCount(resourceNodesMap, url) = maxNodesPerSource =>
      /\ LET r == load(resourceNodesMap, bufferingAudios, url, ready) IN
         r.result = PoolExhausted(url) /\ r.map = resourceNodesMap
      /\ \A g \in Groups :
           Unallocated(resourceNodesMap, url) = <<>> =>
             LET r == allocateForGroup(resourceNodesMap, bufferingAudios, url, g, ready)
             IN r.result = PoolExhausted(url) /\ r.map = resourceNodesMap

\* An allocation has just been refused at the maximum.
C3_Witness ==
  /\ lastOp.op \in {"load", "allocateForGroup"}
  /\ lastOp.result.error = "PoolExhausted"
  /\ HandleCount(resourceNodesMap, lastOp.result.name) = maxNodesPerSource

\* The pool m2 differs from m at most in the entry of url.
SameButUrl(m, m2, url) ==
  /\ DOMAIN m2 \ {url} = DOMAIN m \ {url}
  /\ \A u \in DOMAIN m \ {url} : m2[u] = m[u]

\* The entry of url differs in m2 from m at most in the list of group g.
SameButGroup(m, m2, url, g) ==
  /\ SameButUrl(m, m2, url)
  /\ Unallocated(m2, url) = Unallocated(m, url)
  /\ GroupKeys(m2, url) \ {g} = GroupKeys(m, url) \ {g}
  /\ \A k \in GroupKeys(m, url) \ {g} : GroupNodes(m2, url, k) = GroupNodes(m, url, k)

\* C4: allocateForGroup(url, g) with `unallocated` not empty moves one handle
\* from `unallocated` to allocated[g] and makes no handle; with `unallocated`
\* empty and the total below the maximum it makes exactly one handle, in
\* allocated[g], and the total grows by one.
C4_AllocateForGroupMovesOrCreates ==
  \A url \in Urls, g \in Groups, ready \in BOOLEAN :
    LET m == resourceNodesMap
        r == allocateForGroup(m, bufferingAudios, url, g, ready)
        a == r.audio
    IN /\ Unallocated(m, url) # <<>> =>
            /\ r.result = Ok
            /\ a \in Range(Unallocated(m, url))
            /\ Range(Unallocated(r.map, url)) = Range(Unallocated(m, url)) \ {a}
            /\ Len(Unallocated(r.map, url)) = Len(Unallocated(m, url)) - 1
            /\ GroupAudios(r.map, url, g) = GroupAudios(m, url, g) \cup {a}
            /\ Len(GroupNodes(r.map, url, g)) = Len(GroupNodes(m, url, g)) + 1
            /\ HandleCount(r.map, url) = HandleCount(m, url)
            /\ PoolAudios(r.map) = PoolAudios(m)
       /\ ( /\ Unallocated(m, url) = <<>>
            /\ HandleCount(m, url) < maxNodesPerSource
            /\ FreshAudio(m, bufferingAudios) # NoAudio ) =>
            /\ r.result = Ok
            /\ a \notin PoolAudios(m)
            /\ PoolAudios(r.map) = PoolAudios(m) \cup {a}
            /\ Unallocated(r.map, url) = <<>>
            /\ GroupAudios(r.map, url, g) = GroupAudios(m, url, g) \cup {a}
            /\ HandleCount(r.map, url) = HandleCount(m, url) + 1
            /\ \A u \in Urls \ {url} : HandleCount(r.map, u) = HandleCount(m, u)

\* An allocateForGroup has just taken its handle from `unallocated`.
C4_Witness ==
  /\ lastOp.op = "allocateForGroup"
  /\ lastOp.note = "reused"
  /\ \E url \in Urls, g \in Groups : GroupNodes(resourceNodesMap, url, g) # <<>>

\* The index of the first node of the list with no sound (0: none).
LowestFree(nodes) ==
  IF \A i \in 1..Len(nodes) : nodes[i].soundId # Null THEN 0
  ELSE CHOOSE i \in 1..Len(nodes) :
         /\ nodes[i].soundId = Null
         /\ \A j \in 1..(i - 1) : nodes[j].soundId # Null

\* C5: allocateForSound(url, g, s) binds s to the lowest-index handle of
\* allocated[g] whose soundId is unset and returns that handle; every other
\* handle and the membership of every list are unchanged.
C5_AllocateForSoundBindsLowestFree ==
  \A url \in Urls, g \in Groups, s \in Sounds :
    LET m == resourceNodesMap
        r == allocateForSound(m, bufferingAudios, url, g, s)
        nodes == GroupNodes(m, url, g)
        i == LowestFree(nodes)
    IN i # 0 =>
         /\ r.result = Ok
         /\ r.audio = nodes[i].audio
         /\ GroupNodes(r.map, url, g) =
              [j \in 1..Len(nodes) |->
                 IF j = i THEN [audio |-> nodes[j].audio, soundId |-> s] ELSE nodes[j]]
         /\ SameButGroup(m, r.map, url, g)

\* The second of two free handles of a group was passed over and the first bound.
C5_Witness ==
  /\ lastOp.op = "allocateForSound"
  /\ lastOp.result = Ok
  /\ LET nodes == GroupNodes(resourceNodesMap, lastOp.url, lastOp.group) IN
     /\ Len(nodes) = 2
     /\ nodes[1].soundId = lastOp.sound
     /\ nodes[2].soundId = Null

\* C6: allocateForSound(url, g, s) throws NoFreeNodes naming g whenever g has no
\* entry in `allocated` or every handle of g is bound, and then leaves the pool
\* unchanged; no call binds a handle that is bound to a sound already.
C6_NoFreeNodes ==
  \A url \in Urls, g \in Groups, s \in Sounds :
    LET m == resourceNodesMap
        r == allocateForSound(m, bufferingAudios, url, g, s)
        nodes == GroupNodes(m, url, g)
    IN /\ LowestFree(nodes) = 0 => r.result = NoFreeNodes(g) /\ r.map = m
       /\ \A u \in DOMAIN m : \A k \in DOMAIN m[u].allocated :
            \A j \in 1..Len(m[u].allocated[k]) :
              m[u].allocated[k][j].soundId # Null =>
                /\ u \in DOMAIN r.map /\ k \in DOMAIN r.map[u].allocated
                /\ j <= Len(r.map[u].allocated[k])
                /\ r.map[u].allocated[k][j] = m[u].allocated[k][j]

\* An allocateForSound was refused for a group all of whose handles are bound.
C6_Witness ==
  /\ lastOp.op = "allocateForSound"
  /\ lastOp.result.error = "NoFreeNodes"
  /\ \E url \in Urls :
       LET nodes == GroupNodes(resourceNodesMap, url, lastOp.result.name) IN
       nodes # <<>> /\ LowestFree(nodes) = 0

\* The nodes of a list that are bound to a sound, and the audios of the others.
Kept(nodes) == SelectSeq(nodes, LAMBDA n : n.soundId \in Sounds)

Unbound(nodes) == {nodes[i].audio : i \in {j \in 1..Len(nodes) : nodes[j].soundId \notin Sounds}}

\* C7, as claimed: releaseForGroup(url, g, false) removes the key g and moves
\* every handle of allocated[g] to `unallocated`, which grows by the size of the
\* group, the total of url unchanged.
C7_Claimed_ReleaseMovesToUnallocated ==
  \A url \in Urls, g \in Groups :
    LET m == resourceNodesMap
        r == releaseForGroup(m, bufferingAudios, url, g, FALSE)
        nodes == GroupNodes(m, url, g)
    IN HasGroup(m, url, g) =>
         /\ g \notin GroupKeys(r.map, url)
         /\ Range(Unallocated(r.map, url)) = Range(Unallocated(m, url)) \cup GroupAudios(m, url, g)
         /\ Len(Unallocated(r.map, url)) = Len(Unallocated(m, url)) + Len(nodes)
         /\ HandleCount(r.map, url) = HandleCount(m, url)

\* C7, amended: releaseForGroup(url, g, false) removes the key g, and every
\* handle of allocated[g], bound or not, leaves the pool: `unallocated` is
\* unchanged and the total of url drops by the size of the group.
C7_ReleaseForGroupDropsGroup ==
  \A url \in Urls, g \in Groups :
    LET m == resourceNodesMap
        r == releaseForGroup(m, bufferingAudios, url, g, FALSE)
        nodes == GroupNodes(m, url, g)
    IN HasGroup(m, url, g) =>
         /\ g \notin GroupKeys(r.map, url)
         /\ GroupAudios(m, url, g) \cap PoolAudios(r.map) = {}
         /\ HandleCount(r.map, url) = HandleCount(m, url) - Len(nodes)
         /\ SameButGroup(m, r.map, url, g)

\* A releaseForGroup without `free` has just released a group that held handles.
C7_Witness ==
  /\ lastOp.op = "releaseForGroup"
  /\ lastOp.note = "all"
  /\ resourceNodesMap # EmptyMap

\* C8, as claimed: releaseForGroup(url, g, true) moves exactly the handles of
\* allocated[g] with no sound to `unallocated`; the bound ones stay as they are
\* and the key stays while a bound handle is left.
C8_Claimed_ReleaseFreeMovesToUnallocated ==
  \A url \in Urls, g \in Groups :
    LET m == resourceNodesMap
        r == releaseForGroup(m, bufferingAudios, url, g, TRUE)
        nodes == GroupNodes(m, url, g)
    IN HasGroup(m, url, g) =>
         /\ Range(Unallocated(r.map, url)) = Range(Unallocated(m, url)) \cup Unbound(nodes)
         /\ Len(Unallocated(r.map, url)) = Len(Unallocated(m, url)) + Cardinality(Unbound(nodes))
         /\ GroupNodes(r.map, url, g) = Kept(nodes)
         /\ Kept(nodes) # <<>> => g \in GroupKeys(r.map, url)

\* C8, amended: releaseForGroup(url, g, true) takes exactly the handles of
\* allocated[g] with no sound out of the pool, `unallocated` unchanged; the
\* bound ones stay in allocated[g] as they are and the key stays while a bound
\* handle is left.
C8_ReleaseFreeDropsFreeNodes ==
  \A url \in Urls, g \in Groups :
    LET m == resourceNodesMap
        r == releaseForGroup(m, bufferingAudios, url, g, TRUE)
        nodes == GroupNodes(m, url, g)
    IN HasGroup(m, url, g) =>
         /\ GroupNodes(r.map, url, g) = Kept(nodes)
         /\ Unbound(nodes) \cap PoolAudios(r.map) = {}
         /\ Kept(nodes) # <<>> => g \in GroupKeys(r.map, url)
         /\ HandleCount(r.map, url) = HandleCount(m, url) - Cardinality(Unbound(nodes))
         /\ SameButGroup(m, r.map, url, g)

\* A releaseForGroup with `free` has just released a group that held a bound
\* and a free handle: the bound one is left.
C8_Witness ==
  /\ lastOp.op = "releaseForGroup"
  /\ lastOp.note = "free-mixed"
  /\ \E url \in Urls, g \in Groups :
       LET nodes == GroupNodes(resourceNodesMap, url, g) IN
       Len(nodes) = 1 /\ nodes[1].soundId \in Sounds

\* allocateForSound(url, g, s) and then releaseForSound(url, g, s) give back the
\* pool as it was, the handle in allocated[g] with no sound, and a cleanUp()
\* after them has the handle in `unallocated`.
RoundTrip(m, b, url, g, s) ==
  LET r1 == allocateForSound(m, b, url, g, s)
      r2 == releaseForSound(r1.map, r1.buffering, url, g, s)
      r3 == cleanUp(r2.map, r2.buffering)
  IN r1.result = Ok =>
       /\ r2.map = m
       /\ \E i \in 1..Len(GroupNodes(r2.map, url, g)) :
            GroupNodes(r2.map, url, g)[i] = [audio |-> r1.audio, soundId |-> Null]
       /\ r1.audio \in Range(Unallocated(r3.map, url))
       /\ r1.audio \notin UNION {GroupAudios(r3.map, url, k) : k \in Groups}

\* C9, as claimed: the round trip, for every url, group and sound.
C9_Claimed_RoundTrip ==
  \A url \in Urls, g \in Groups, s \in Sounds :
    RoundTrip(resourceNodesMap, bufferingAudios, url, g, s)

\* C9, amended: the round trip, for a sound that no handle of allocated[g] is
\* bound to before the allocateForSound.
C9_RoundTripOfNewSound ==
  \A url \in Urls, g \in Groups, s \in Sounds :
    (\A i \in 1..Len(GroupNodes(resourceNodesMap, url, g)) :
        GroupNodes(resourceNodesMap, url, g)[i].soundId # s)
      => RoundTrip(resourceNodesMap, bufferingAudios, url, g, s)

\* allocateForSound of a sound new to its group, releaseForSound of it and
\* cleanUp have just been called in a row.
C9_Witness ==
  /\ lastOp.op = "cleanUp"
  /\ lastOp.note = "roundtrip"
  /\ \E url \in Urls : Unallocated(resourceNodesMap, url) # <<>>

\* C10: cleanUp() moves, for every url and group, each handle with no sound to
\* `unallocated` of the url, removes a group key exactly when the group is left
\* with no handle, leaves every bound handle in its group and the total of every
\* url unchanged.
C10_CleanUpMovesFreeNodes ==
  LET m == resourceNodesMap
      r == cleanUp(m, bufferingAudios)
  IN /\ DOMAIN r.map = DOMAIN m
     /\ \A url \in Urls :
          /\ HandleCount(r.map, url) = HandleCount(m, url)
          /\ SubSeq(Unallocated(r.map, url), 1, Len(Unallocated(m, url))) = Unallocated(m, url)
          /\ Range(Unallocated(r.map, url)) =
               Range(Unallocated(m, url))
                 \cup UNION {Unbound(GroupNodes(m, url, g)) : g \in Groups}
          /\ \A g \in Groups :
               /\ GroupNodes(r.map, url, g) = Kept(GroupNodes(m, url, g))
               /\ g \in GroupKeys(r.map, url) <=>
                    (g \in GroupKeys(m, url) /\ Kept(GroupNodes(m, url, g)) # <<>>)

\* A cleanUp has just moved a free handle to `unallocated` and left a bound one
\* in its group.
C10_Witness ==
  /\ lastOp.op = "cleanUp"
  /\ lastOp.note = "moved"
  /\ \E url \in Urls, g \in Groups :
       /\ Unallocated(resourceNodesMap, url) # <<>>
       /\ GroupNodes(resourceNodesMap, url, g) # <<>>

(* ------------------- the loader with its promises ---------------------- *)

\* The number of _load calls the model follows.
MaxLoads == 2
\* The largest array of urls handed to load and to unload.
MaxBatch == 2

\* `urls.forEach is not a function`, a method of null: a TypeError.
TypeError == [error |-> "TypeError", name |-> 0]

\* The loader: the pool's map, _bufferingAudios, _disposed, the _load calls made
\* so far and how the last call ended.
Loader(m, b, d, ls, result) ==
  [map |-> m, buffering |-> b, disposed |-> d, loads |-> ls, result |-> result]

\* The loader apart from how the last call ended.
StateOf(L) == [map |-> L.map, buffering |-> L.buffering,
               disposed |-> L.disposed, loads |-> L.loads]

LoadAudios(ls) == {ls[i].audio : i \in 1..Len(ls)} \ {NoAudio}

\* `new Audio()`: an element that nothing refers to and no closure listens on.
FreshFor(L) ==
  LET free == Audios \ (Live(L.map, L.buffering) \cup LoadAudios(L.loads)) IN
  IF free = {} THEN NoAudio ELSE Min(free)

\* resolve(...) of the promise of load i: settles it if it is pending.
Settle(ls, i, how) ==
  IF ls[i].promise = "pending" THEN [ls EXCEPT ![i].promise = how] ELSE ls

\* `new Promise(resolve => {...})` of _load(url, groupId): the promise is
\* rejected if the executor throws, resolved at once if the node has a src and
\* is ready, pending otherwise.
LoadOne(L, url, groupId, ready) ==
  IF L.disposed
  THEN [L EXCEPT !.loads = Append(@, [url |-> url, groupId |-> groupId,
                                      audio |-> NoAudio, promise |-> "rejected"]),
                 !.result = Ok]
  ELSE
  LET fresh == FreshFor(L)
      r == LoadWith(L.map, L.buffering, url, groupId, ready, fresh)
      p == IF r.result # Ok THEN "rejected"
           ELSE IF r.audio # fresh /\ ready THEN "resolved"
           ELSE "pending"
  IN Loader(r.map, r.buffering, L.disposed,
            Append(L.loads, [url |-> url, groupId |-> groupId,
                             audio |-> r.audio, promise |-> p]),
            Ok)

\* `urls.map(url => this._load(url))`
RECURSIVE LoadAll(_, _)
LoadAll(L, urls) ==
  IF urls = <<>> THEN L
  ELSE LoadAll(LoadOne(L, Head(urls), NoGroup, FALSE), Tail(urls))

\* The closure onCanPlayThrough of load i.
RunCanPlayThrough(L, i) ==
  IF L.disposed THEN L
  ELSE [L EXCEPT !.buffering = CleanUpFirstOf(@, L.loads[i].audio),
                 !.loads = Settle(@, i, "resolved")]

\* onError that rejects the promise.
RunError_Rejects(L, i) ==
  IF L.disposed THEN L
  ELSE LET l == L.loads[i] IN
       [L EXCEPT !.buffering = CleanUpFirstOf(@, l.audio),
                 !.map = PoolDestroyAllocatedAudio(@, l.url, l.groupId, l.audio),
                 !.loads = Settle(@, i, "rejected")]

\* The closure onError of load i.
RunError(L, i) ==
  IF L.disposed THEN L
  ELSE LET l == L.loads[i] IN
       [L EXCEPT !.buffering = CleanUpFirstOf(@, l.audio),
                 !.map = PoolDestroyAllocatedAudio(@, l.url, l.groupId, l.audio),
                 !.loads = Settle(@, i, "failed")]

\* The loads whose closures listen on a, in the order they were added
\* (_cleanUp removes none of them).
ListenersOn(ls, a) == {i \in 1..Len(ls) : ls[i].audio = a}

RECURSIVE FireCanPlayThrough(_, _)
FireCanPlayThrough(L, is) ==
  IF is = {} THEN L
  ELSE FireCanPlayThrough(RunCanPlayThrough(L, Min(is)), is \ {Min(is)})

RECURSIVE FireError(_, _)
FireError(L, is) ==
  IF is = {} THEN L
  ELSE FireError(RunError(L, Min(is)), is \ {Min(is)})

\* The element a fires `canplaythrough`, `error`.
canplaythrough(L, a) == [FireCanPlayThrough(L, ListenersOn(L.loads, a)) EXCEPT !.result = Ok]

error(L, a) == [FireError(L, ListenersOn(L.loads, a)) EXCEPT !.result = Ok]

\* `this._bufferingAudios.forEach(audioObj => this._cleanUp(audioObj))`: _cleanUp
\* splices the array that forEach is walking, so the walk steps over the entry
\* that moved into the place of the one removed.
RECURSIVE ForEachCleanUp(_, _)
ForEachCleanUp(b, i) ==
  IF i > Len(b) THEN b ELSE ForEachCleanUp(CleanUpAt(b, i), i + 1)

\* removeAudioObjOfUrl(url): `find(a => a.url === url)` and _cleanUp of it.
RemoveAudioObjOfUrl(b, url) ==
  LET hit == {i \in 1..Len(b) : b[i].url = url} IN
  IF hit = {} THEN b ELSE CleanUpAt(b, Min(hit))

RECURSIVE RemoveAudioObjOfUrls(_, _)
RemoveAudioObjOfUrls(b, urls) ==
  IF urls = <<>> THEN b
  ELSE RemoveAudioObjOfUrls(RemoveAudioObjOfUrl(b, Head(urls)), Tail(urls))

RECURSIVE ReleaseForSources(_, _)
ReleaseForSources(m, urls) ==
  IF urls = <<>> THEN m
  ELSE ReleaseForSources(PoolReleaseForSource(m, Head(urls)), Tail(urls))

\* The arguments of unload: none, one url as a string, an array of urls.
NoUrls == [kind |-> "none", urls |-> <<>>]

OneUrl(url) == [kind |-> "string", urls |-> <<url>>]

ManyUrls(urls) == [kind |-> "array", urls |-> urls]

\* MediaLoader.unload(urls).  The last line calls urls.forEach whatever urls is:
\* with no argument and with a string it throws, after the buffering list was
\* cleaned and before any pool entry is released.
unload(L, arg) ==
  IF arg.kind = "none"
  THEN [L EXCEPT !.buffering = ForEachCleanUp(@, 1), !.result = TypeError]
  ELSE IF arg.kind = "string"
  THEN [L EXCEPT !.buffering = RemoveAudioObjOfUrl(@, arg.urls[1]), !.result = TypeError]
  ELSE [L EXCEPT !.buffering = RemoveAudioObjOfUrls(@, arg.urls),
                 !.map = ReleaseForSources(@, arg.urls),
                 !.result = Ok]

\* Html5AudioPool.dispose(): every node is destroyed and the map cleared.
PoolDispose(m) == EmptyMap

\* dispose without the _disposed guard: the second call spreads null.
dispose_NoGuard(L) ==
  IF L.disposed THEN [L EXCEPT !.result = TypeError]
  ELSE Loader(PoolDispose(L.map), <<>>, TRUE, L.loads, Ok)

\* MediaLoader.dispose(): _bufferingAudios and _audioPool are left null.
dispose(L) ==
  IF L.disposed THEN [L EXCEPT !.result = Ok]
  ELSE Loader(PoolDispose(L.map), <<>>, TRUE, L.loads, Ok)

\* The loader as it is now.
Now == Loader(resourceNodesMap, bufferingAudios, disposed, loads, Ok)

\* DownloadResult(url, audio) and DownloadResult(url, null, err) of a load.
ResultOf(l) ==
  [url |-> l.url,
   handle |-> IF l.promise = "resolved" THEN l.audio ELSE NoAudio,
   error |-> l.promise = "failed"]

\* Promise.all of the loads of a batch: rejected once one of them is, resolved
\* with their results in order once all are resolved.
BatchPromise(ls, ids) ==
  IF \E k \in 1..Len(ids) : ls[ids[k]].promise = "rejected" THEN "rejected"
  ELSE IF \E k \in 1..Len(ids) : ls[ids[k]].promise = "pending" THEN "pending"
  ELSE "resolved"

BatchResults(ls, ids) == [k \in 1..Len(ids) |-> ResultOf(ls[ids[k]])]

\* The state a call of the loader leaves.
BecomesL(L, op) ==
  /\ resourceNodesMap' = L.map
  /\ bufferingAudios' = L.buffering
  /\ disposed' = L.disposed
  /\ loads' = L.loads
  /\ lastOp' = op
  /\ UNCHANGED <<maxNodesPerSource, soundVars, engineVars>>

\* The model can follow the loads: they are within MaxLoads and every node the
\* pool made got an identity.
LoadsInBounds(L) ==
  /\ Len(L.loads) <= MaxLoads
  /\ \A i \in 1..Len(L.loads) : L.loads[i].promise # "rejected" => L.loads[i].audio # NoAudio

LoadsNote(L) ==
  IF L.loads[Len(L.loads)].promise = "rejected" THEN "rejected"
  ELSE IF L.loads[Len(L.loads)].promise = "resolved" THEN "ready"
  ELSE "pending"

\* load(url) with a string.
LoaderLoad(url) ==
  LET L == LoadOne(Now, url, NoGroup, FALSE) IN
  /\ ~disposed
  /\ LoadsInBounds(L)
  /\ BecomesL(L, MkOp("load", Ok, LoadsNote(L), 0, NoGroup, Null))
  /\ UNCHANGED batch

\* load(urls) with an array.
LoaderLoadBatch(urls) ==
  LET L == LoadAll(Now, urls) IN
  /\ ~disposed
  /\ LoadsInBounds(L)
  /\ BecomesL(L, MkOp("loadBatch", Ok, "", 0, NoGroup, Null))
  /\ batch' = [urls |-> urls, ids |-> [k \in 1..Len(urls) |-> Len(loads) + k]]

LoaderAllocateForGroup(url, g) ==
  \E ready \in BOOLEAN :
    LET L == LoadOne(Now, url, g, ready) IN
    /\ ~disposed
    /\ LoadsInBounds(L)
    /\ BecomesL(L, MkOp("allocateForGroup", Ok, LoadsNote(L), 0, NoGroup, Null))
    /\ UNCHANGED batch

\* Engine.free(), on its interval.
LoaderCleanUp ==
  /\ ~disposed
  /\ PoolCleanUp(resourceNodesMap) # resourceNodesMap
  /\ BecomesL([Now EXCEPT !.map = PoolCleanUp(@)], MkOp("cleanUp", Ok, "", 0, NoGroup, Null))
  /\ UNCHANGED batch

\* "cancelled": an entry was taken off the buffering list.
LoaderUnload(arg) ==
  LET L == unload(Now, arg) IN
  /\ ~disposed
  /\ BecomesL(L, MkOp("unload", L.result,
                      IF L.buffering # bufferingAudios THEN "cancelled" ELSE "",
                      0, NoGroup, Null))
  /\ UNCHANGED batch

\* "again": the loader was disposed already.
LoaderDispose ==
  LET L == dispose(Now) IN
  /\ lastOp.note # "again"
  /\ BecomesL(L, MkOp("dispose", L.result, IF disposed THEN "again" ELSE "first",
                      0, NoGroup, Null))
  /\ UNCHANGED batch

\* "settled": the event settled a pending promise.
LoaderCanPlayThrough(a) ==
  LET L == canplaythrough(Now, a) IN
  /\ ListenersOn(loads, a) # {}
  /\ StateOf(L) # StateOf(Now)
  /\ BecomesL(L, MkOp("canplaythrough", Ok, "settled", 0, NoGroup, Null))
  /\ UNCHANGED batch

LoaderError(a) ==
  LET L == error(Now, a) IN
  /\ ListenersOn(loads, a) # {}
  /\ StateOf(L) # StateOf(Now)
  /\ BecomesL(L, MkOp("error", Ok, "settled", 0, NoGroup, Null))
  /\ UNCHANGED batch

UrlArrays == UNION {[1..n -> Urls] : n \in 1..MaxBatch}

UnloadArgs == {NoUrls} \cup {OneUrl(u) : u \in Urls} \cup {ManyUrls(us) : us \in UrlArrays}

LoaderNext ==
  \/ \E url \in Urls : LoaderLoad(url)
  \/ \E urls \in UrlArrays : LoaderLoadBatch(urls)
  \/ \E url \in Urls, g \in Groups : LoaderAllocateForGroup(url, g)
  \/ LoaderCleanUp
  \/ \E arg \in UnloadArgs : LoaderUnload(arg)
  \/ LoaderDispose
  \/ \E a \in Audios : LoaderCanPlayThrough(a)
  \/ \E a \in Audios : LoaderError(a)

LoaderSpec == Init /\ [][LoaderNext]_vars

(* ------------------------ the claims of the loader --------------------- *)

\* C11: from every reachable state dispose() leaves the pool with no entry and
\* no handle and does not throw, and a second dispose() does not throw and
\* changes nothing, of the loader and of the pool.
C11_DisposeEmptiesAndIsIdempotent ==
  LET r1 == dispose(Now)
      r2 == dispose(r1)
  IN /\ r1.result = Ok
     /\ r1.disposed
     /\ DOMAIN r1.map = {}
     /\ PoolAudios(r1.map) = {}
     /\ r1.buffering = <<>>
     /\ r2.result = Ok
     /\ StateOf(r2) = StateOf(r1)
     /\ PoolDispose(PoolDispose(resourceNodesMap)) = PoolDispose(resourceNodesMap)

\* dispose() was called twice on a loader that had made a handle.
C11_Witness ==
  /\ lastOp.op = "dispose"
  /\ lastOp.note = "again"
  /\ lastOp.result = Ok
  /\ disposed
  /\ resourceNodesMap = EmptyMap
  /\ LoadAudios(loads) # {}

\* The loads in flight: their promise is pending and their entry is on the
\* buffering list.
InFlight(i) ==
  /\ ~disposed
  /\ loads[i].promise = "pending"
  /\ \E k \in 1..Len(bufferingAudios) :
       bufferingAudios[k] = [url |-> loads[i].url, groupId |-> loads[i].groupId,
                             audio |-> loads[i].audio]

\* C12, as claimed: an `error` of the element of a load in flight, with or
\* without a group, resolves its promise with {url, null, error} and leaves the
\* element in no list of the pool.
C12_Claimed_ErrorDestroysHandle ==
  \A i \in 1..Len(loads) :
    InFlight(i) =>
      LET L == error(Now, loads[i].audio) IN
      /\ ResultOf(L.loads[i]) = [url |-> loads[i].url, handle |-> NoAudio, error |-> TRUE]
      /\ loads[i].audio \notin PoolAudios(L.map)

\* C13: a load(urls) of n urls each of which got a handle is never rejected;
\* once each of its loads has made it or failed it is resolved with n results,
\* the k-th for the k-th url, those that failed with an error and no handle, the
\* others with their handle.
C13_BatchResolvesWithAllResults ==
  (/\ batch.ids # <<>>
   /\ \A k \in 1..Len(batch.ids) : loads[batch.ids[k]].audio # NoAudio) =>
    LET rs == BatchResults(loads, batch.ids) IN
    /\ BatchPromise(loads, batch.ids) # "rejected"
    /\ (\A k \in 1..Len(batch.ids) : loads[batch.ids[k]].promise # "pending") =>
         /\ BatchPromise(loads, batch.ids) = "resolved"
         /\ Len(rs) = Len(batch.urls)
         /\ \A k \in 1..Len(rs) :
              /\ rs[k].url = batch.urls[k]
              /\ rs[k].error => rs[k].handle = NoAudio
              /\ ~rs[k].error => rs[k].handle = loads[batch.ids[k]].audio

\* A batch of two urls is resolved, the first url failed and the second made it.
C13_Witness ==
  /\ Len(batch.ids) = 2
  /\ BatchPromise(loads, batch.ids) = "resolved"
  /\ BatchResults(loads, batch.ids)[1].error
  /\ ~BatchResults(loads, batch.ids)[2].error
  /\ BatchResults(loads, batch.ids)[2].handle # NoAudio

\* The loads that unload cancelled: pending, with no entry of their element left
\* on the buffering list.
Cancelled(i) ==
  /\ ~disposed
  /\ loads[i].promise = "pending"
  /\ loads[i].audio \notin BufferedAudios(bufferingAudios)

\* C14, as claimed: the `canplaythrough` and `error` of the element of a
\* cancelled load change neither the pool nor the buffering list.
C14_Claimed_CancelledEventsInert ==
  \A i \in 1..Len(loads) :
    Cancelled(i) =>
      LET Le == error(Now, loads[i].audio)
          Lc == canplaythrough(Now, loads[i].audio)
      IN /\ Le.map = resourceNodesMap /\ Le.buffering = bufferingAudios
         /\ Lc.map = resourceNodesMap /\ Lc.buffering = bufferingAudios

\* The urls an unload is about: those named, or with no argument those of the
\* loads in flight.
UrlsOf(arg) ==
  IF arg.kind = "none" THEN {bufferingAudios[k].url : k \in 1..Len(bufferingAudios)}
  ELSE Range(arg.urls)

\* C15, as claimed: unload(), unload(url) and unload(urls) return without
\* throwing, leave no load of the urls they are about on the buffering list and
\* no entry of these urls in the pool.
C15_Claimed_UnloadCancelsAndReleases ==
  \A arg \in UnloadArgs :
    ~disposed =>
      LET L == unload(Now, arg) IN
      /\ L.result = Ok
      /\ \A k \in 1..Len(L.buffering) : L.buffering[k].url \notin UrlsOf(arg)
      /\ \A u \in UrlsOf(arg) : u \notin DOMAIN L.map

(* ------------------------------ the sound ------------------------------ *)
(* BufferBuzz.js is modelled from its source, and so is what MediaBuzz      *)
(* overrides.  Their base class BaseBuzz is not part of the available       *)
(* sources: the Base* operators are written from the design document.       *)

\* The largest value of AudioContext.currentTime, in seconds.
MaxClock == 2
\* The duration of the audio, in seconds.
BufferDuration == 2
\* `rate > 5` is refused.
MaxRate == 5
\* `_endTimer = null`
NoTimer == 0
\* A delay of Infinity (a division by a rate of 0).
Infinity == -1

\* The sprite, when there is one, defines one sound: the last second.
SpriteName == "a"

NoSprite == "none"

SpriteRegion == <<BufferDuration - 1, BufferDuration>>

SoundArgs == {NoSprite, SpriteName}

RateArgs == {-1, 0, 1, 2, MaxRate, MaxRate + 1}

SeekArgs == {-1, 0, 1, BufferDuration + 1}

Max(a, b) == IF a >= b THEN a ELSE b

Abs(x) == IF x < 0 THEN 0 - x ELSE x

\* x / r of JavaScript for the delays of the model.
Div(x, r) == IF r = 0 THEN Infinity ELSE x \div r

\* A sound right after construction.
NewSound(backend, loop, sprite) ==
  [backend |-> backend, state |-> "idle", loadState |-> "notloaded",
   loop |-> loop, rate |-> 1, sprite |-> sprite, spriteSound |-> NoSprite,
   seek |-> 0, rateSeek |-> 0, elapsed |-> 0, startPos |-> 0, endPos |-> 0,
   duration |-> 0, startTime |-> 0, endTimer |-> NoTimer, node |-> FALSE,
   offset |-> 0, download |-> FALSE, timers |-> 0, stale |-> FALSE,
   queue |-> <<>>, fired |-> <<>>]

\* The sound with the record of the events fired emptied.
Quiet(S) == [S EXCEPT !.fired = <<>>]

\* this._fire(event)
Fire(S, event) == [S EXCEPT !.fired = Append(@, event)]

\* BaseBuzz.isPlaying(), isPaused(), isLoaded()
isPlaying(S) == S.state = "playing"

isPaused(S) == S.state = "paused"

isLoaded(S) == S.loadState = "loaded"

\* this._actionQueue.add(kind, fn): one slot for each kind of action.
Enqueue(q, item) ==
  IF \E i \in 1..Len(q) : q[i].kind = item.kind
  THEN [i \in 1..Len(q) |-> IF q[i].kind = item.kind THEN item ELSE q[i]]
  ELSE Append(q, item)

PlayIntent(snd, fireEvent) == [kind |-> "play", sound |-> snd, fireEvent |-> fireEvent, pos |-> 0]

SeekIntent(pos) == [kind |-> "seek", sound |-> NoSprite, fireEvent |-> FALSE, pos |-> pos]

\* BaseBuzz.load(): starts the download unless it is loaded or loading.
BaseLoad(S) ==
  IF S.loadState = "notloaded" THEN [S EXCEPT !.loadState = "loading"] ELSE S

\* BufferBuzz._getTimeVars()
GetTimeVars(S) ==
  [seek |-> Max(0, IF S.seek > 0 THEN S.seek ELSE S.startPos),
   duration |-> S.endPos - S.startPos,
   timeout |-> Div((S.endPos - S.startPos) * 1000, S.rate)]

\* _play: the sprite sound, the seek and the start and end positions.
WithRegion(S, snd) ==
  LET sp == IF snd # NoSprite /\ S.sprite /\ snd = SpriteName THEN snd ELSE NoSprite
  IN [S EXCEPT !.spriteSound = sp,
               !.seek = IF ~isPaused(S) /\ sp # S.spriteSound THEN 0 ELSE @,
               !.startPos = IF sp # NoSprite THEN SpriteRegion[1] ELSE 0,
               !.endPos = IF sp # NoSprite THEN SpriteRegion[2] ELSE S.duration]

\* `this._endTimer = setTimeout(this._onEnded, delay)`: one more timeout is
\* pending (`timers`; the model counts two at most) and _endTimer is its handle.
SetTimer(S, delay) ==
  [S EXCEPT !.endTimer = delay, !.stale = FALSE,
            !.timers = IF @ < 2 THEN @ + 1 ELSE @]

\* BufferBuzz._clearEndTimer(): clearTimeout of a handle whose timeout has
\* fired (`stale`) clears nothing.
ClearEndTimer(S) ==
  IF S.endTimer = NoTimer THEN S
  ELSE [S EXCEPT !.endTimer = NoTimer, !.stale = FALSE,
                 !.timers = IF S.stale \/ @ = 0 THEN @ ELSE @ - 1]

\* The playback, started: the node and the offset it was started at, the
\* start time, the end timer, the state.
Started(S, fireEvent, now) ==
  LET S1 == [SetTimer(S, GetTimeVars(S).timeout)
               EXCEPT !.node = TRUE, !.offset = GetTimeVars(S).seek, !.startTime = now,
                      !.state = "playing"]
  IN IF fireEvent THEN Fire(S1, "play") ELSE S1

\* _play that does not look whether the sound is playing.
BufferPlay_NoGuard(S, snd, fireEvent, now) ==
  IF ~isLoaded(S)
  THEN BaseLoad([S EXCEPT !.queue = Enqueue(@, PlayIntent(snd, fireEvent))])
  ELSE Started(WithRegion(S, snd), fireEvent, now)

\* _play that does not look whether the sound is loaded.
BufferPlay_NoQueue(S, snd, fireEvent, now) ==
  IF isPlaying(S) THEN S
  ELSE Started(WithRegion(S, snd), fireEvent, now)

\* BufferBuzz._play(sound, fireEvent)
BufferPlay(S, snd, fireEvent, now) ==
  IF isPlaying(S) THEN S
  ELSE IF ~isLoaded(S)
  THEN BaseLoad([S EXCEPT !.queue = Enqueue(@, PlayIntent(snd, fireEvent))])
  ELSE Started(WithRegion(S, snd), fireEvent, now)

\* BaseBuzz.play(), which MediaBuzz inherits: the same steps, the node started
\* at the resume position or at the start of the region, its timer armed for
\* (duration of the region / rate) * 1000 ms.
BasePlay(S, snd, fireEvent, now) ==
  IF isPlaying(S) THEN S
  ELSE IF ~isLoaded(S)
  THEN BaseLoad([S EXCEPT !.queue = Enqueue(@, PlayIntent(snd, fireEvent))])
  ELSE LET S1 == WithRegion(S, snd)
           S2 == [SetTimer(S1, Div((S1.endPos - S1.startPos) * 1000, S1.rate))
                    EXCEPT !.node = TRUE, !.startTime = now, !.state = "playing",
                           !.offset = IF isPaused(S) THEN S.elapsed ELSE S1.startPos]
       IN IF fireEvent THEN Fire(S2, "play") ELSE S2

\* play() and playSprite(sound) of the sound.
Play(S, snd, now) ==
  IF S.backend = "buffer" THEN BufferPlay(S, snd, TRUE, now)
  ELSE BasePlay(S, snd, TRUE, now)

\* seek() with no argument: the position of the playback.
SeekPos(S, now) ==
  LET realTime == IF isPlaying(S) THEN now - S.startTime ELSE 0
      rateElapsed == IF S.rateSeek # 0 THEN S.rateSeek - S.elapsed ELSE 0
  IN S.elapsed + (rateElapsed + realTime * S.rate)

\* BaseBuzz._pause(fireEvent): the position is kept as the elapsed time, the
\* node stopped, the timer cleared.
BasePause(S, fireEvent, now) ==
  LET S1 == [ClearEndTimer(S) EXCEPT !.elapsed = SeekPos(S, now), !.node = FALSE,
                                     !.state = "paused"]
  IN IF fireEvent THEN Fire(S1, "pause") ELSE S1

\* BaseBuzz._stop(fireEvent): the position is reset, the node stopped and
\* destroyed, the timer cleared.
BaseStop(S, fireEvent) ==
  LET S1 == [ClearEndTimer(S) EXCEPT !.seek = 0, !.rateSeek = 0, !.elapsed = 0,
                                     !.node = FALSE, !.state = "idle"]
  IN IF fireEvent THEN Fire(S1, "stop") ELSE S1

\* BufferBuzz._onEnded(): when looping the new timer is given the duration of
\* the region as it is, in seconds, for its delay in milliseconds.
BufferOnEnded(S, now) ==
  IF S.loop
  THEN Fire([SetTimer(Fire(S, "playend"), S.endPos - S.startPos)
               EXCEPT !.seek = S.startPos, !.rateSeek = 0, !.startTime = now],
            "playstart")
  ELSE Fire([ClearEndTimer(S) EXCEPT !.seek = 0, !.rateSeek = 0,
                                     !.node = FALSE, !.state = "idle"],
            "playend")

\* MediaBuzz._onEnded()
MediaOnEnded(S, now) ==
  IF S.loop
  THEN BasePlay(BaseStop(Fire(S, "playend"), FALSE), NoSprite, TRUE, now)
  ELSE Fire([BaseStop(S, FALSE) EXCEPT !.state = "idle"], "playend")

\* _onEnded of the sound.
OnEnded(S, now) ==
  IF S.backend = "buffer" THEN BufferOnEnded(S, now) ELSE MediaOnEnded(S, now)

\* A pending timeout fires: it is pending no more, and _onEnded runs.
TimerFired(S, now) == OnEnded([S EXCEPT !.timers = @ - 1, !.stale = TRUE], now)

\* rate that arms the new timer and leaves the one that is pending.
BufferRate_NoClear(S, rate, now) ==
  IF rate < 0 \/ rate > MaxRate THEN S
  ELSE LET S1 == [S EXCEPT !.rateSeek = SeekPos(S, now), !.startTime = now, !.rate = rate]
           S2 == IF isPlaying(S1)
                 THEN SetTimer(S1, Div(GetTimeVars(S1).duration * 1000, Abs(rate)))
                 ELSE S1
       IN Fire(S2, "rate")

\* BufferBuzz.rate(rate) with a number.
BufferRate(S, rate, now) ==
  IF rate < 0 \/ rate > MaxRate THEN S
  ELSE LET S1 == [S EXCEPT !.rateSeek = SeekPos(S, now), !.startTime = now, !.rate = rate]
           S2 == IF isPlaying(S1)
                 THEN SetTimer(ClearEndTimer(S1),
                               Div(GetTimeVars(S1).duration * 1000, Abs(rate)))
                 ELSE S1
       IN Fire(S2, "rate")

\* seek that does not compare the position with the duration.
BufferSeek_NoRange(S, pos, now) ==
  IF pos < 0 THEN S
  ELSE IF ~isLoaded(S)
  THEN [S EXCEPT !.queue = Enqueue(@, SeekIntent(pos)), !.download = TRUE]
  ELSE LET S1 == IF isPlaying(S) THEN BasePause(S, FALSE, now) ELSE S
           S2 == Fire([S1 EXCEPT !.elapsed = pos], "seek")
       IN IF isPlaying(S) THEN BufferPlay(S2, NoSprite, FALSE, now) ELSE S2

\* BufferBuzz.seek(seek) with a number.  Not loaded, it queues the seek and
\* calls _load(), whose promise it drops: the download runs, and nothing of
\* the sound waits for it.
BufferSeek(S, pos, now) ==
  IF pos < 0 THEN S
  ELSE IF ~isLoaded(S)
  THEN [S EXCEPT !.queue = Enqueue(@, SeekIntent(pos)), !.download = TRUE]
  ELSE IF pos > S.duration THEN S
  ELSE LET S1 == IF isPlaying(S) THEN BasePause(S, FALSE, now) ELSE S
           S2 == Fire([S1 EXCEPT !.elapsed = pos], "seek")
       IN IF isPlaying(S) THEN BufferPlay(S2, NoSprite, FALSE, now) ELSE S2

\* The queued actions run in their order.
RECURSIVE RunQueue(_, _, _)
RunQueue(S, q, now) ==
  IF q = <<>> THEN S
  ELSE LET it == Head(q)
           S1 == IF it.kind = "play"
                 THEN (IF S.backend = "buffer"
                       THEN BufferPlay(S, it.sound, it.fireEvent, now)
                       ELSE BasePlay(S, it.sound, it.fireEvent, now))
                 ELSE BufferSeek(S, it.pos, now)
       IN RunQueue(S1, Tail(q), now)

\* The download made it: _save(downloadResult), the `load` event, the queue.
LoadSucceeded(S, now) ==
  LET S1 == Fire([S EXCEPT !.loadState = "loaded", !.duration = BufferDuration,
                           !.queue = <<>>], "load")
  IN RunQueue(S1, S.queue, now)

\* The download failed: the queue is dropped, the `error` event, Idle.
LoadFailed(S) ==
  Fire([S EXCEPT !.loadState = "notloaded", !.queue = <<>>, !.state = "idle"], "error")

\* The state a call on the sound leaves.
BecomesS(S, op) ==
  /\ sound' = S
  /\ lastOp' = op
  /\ UNCHANGED <<maxNodesPerSource, resourceNodesMap, bufferingAudios, loaderVars, clock,
                 engineVars>>

SoundOp(op, note) == MkOp(op, Ok, note, 0, NoGroup, Null)

SoundPlay(snd) ==
  BecomesS(Play(Quiet(sound), snd, clock),
           SoundOp("play", IF isPlaying(sound) THEN "playing"
                           ELSE IF ~isLoaded(sound) THEN "queued" ELSE "started"))

SoundLoad ==
  /\ sound.loadState = "notloaded"
  /\ BecomesS(BaseLoad(Quiet(sound)), SoundOp("load", ""))

\* "replayed": a queued play was run.
SoundLoadSucceeds ==
  /\ sound.loadState = "loading"
  /\ BecomesS(LoadSucceeded(Quiet(sound), clock),
              SoundOp("loaded", IF \E i \in 1..Len(sound.queue) : sound.queue[i].kind = "play"
                                THEN "replayed" ELSE ""))

SoundLoadFails ==
  /\ sound.loadState = "loading"
  /\ BecomesS(LoadFailed(Quiet(sound)), SoundOp("loadfailed", ""))

SoundTimerFires ==
  /\ sound.timers > 0
  /\ BecomesS(TimerFired(Quiet(sound), clock),
              SoundOp("ended", IF sound.loop THEN "loop" ELSE "end"))

\* "refused": the rate is left as it was.
SoundRate(rate) ==
  /\ sound.backend = "buffer"
  /\ BecomesS(BufferRate(Quiet(sound), rate, clock),
              SoundOp("rate", IF BufferRate(Quiet(sound), rate, clock) = Quiet(sound)
                              THEN "refused" ELSE "set"))

\* "negative", "beyond": the position is negative, or beyond the duration of
\* a loaded sound.
SoundSeek(pos) ==
  /\ sound.backend = "buffer"
  /\ BecomesS(BufferSeek(Quiet(sound), pos, clock),
              SoundOp("seek", IF pos < 0 THEN "negative"
                              ELSE IF isLoaded(sound) /\ pos > sound.duration THEN "beyond"
                              ELSE IF ~isLoaded(sound) THEN "queued"
                              ELSE IF isPlaying(sound) THEN "restarted" ELSE "moved"))

\* The download that seek started with _load() is over: its promise has no
\* handler.
SoundDownloadCompletes ==
  /\ sound.download
  /\ BecomesS([Quiet(sound) EXCEPT !.download = FALSE], SoundOp("downloaded", ""))

SoundPause ==
  /\ isPlaying(sound)
  /\ BecomesS(BasePause(Quiet(sound), TRUE, clock), SoundOp("pause", ""))

SoundStop ==
  /\ isPlaying(sound) \/ isPaused(sound)
  /\ BecomesS(BaseStop(Quiet(sound), TRUE), SoundOp("stop", ""))

\* A second passes.
Tick ==
  /\ clock < MaxClock
  /\ clock' = clock + 1
  /\ UNCHANGED <<maxNodesPerSource, resourceNodesMap, bufferingAudios, lastOp,
                 loaderVars, sound, engineVars>>

SoundInit ==
  /\ maxNodesPerSource = MaxNodesLimit
  /\ resourceNodesMap = EmptyMap
  /\ bufferingAudios = <<>>
  /\ lastOp = MkOp("new", Ok, "", 0, NoGroup, Null)
  /\ disposed = FALSE
  /\ loads = <<>>
  /\ batch = [urls |-> <<>>, ids |-> <<>>]
  /\ sound \in {NewSound(k, l, sp) : k \in {"buffer", "media"}, l \in BOOLEAN, sp \in BOOLEAN}
  /\ clock = 0
  /\ engine = NewEngine

SoundNext ==
  \/ \E snd \in SoundArgs : SoundPlay(snd)
  \/ SoundLoad
  \/ SoundLoadSucceeds
  \/ SoundLoadFails
  \/ SoundTimerFires
  \/ \E rate \in RateArgs : SoundRate(rate)
  \/ \E pos \in SeekArgs : SoundSeek(pos)
  \/ SoundDownloadCompletes
  \/ SoundPause
  \/ SoundStop
  \/ Tick

SoundSpec == SoundInit /\ [][SoundNext]_vars

(* ------------------------- the claims of the sound ---------------------- *)

\* How many times an event was fired.
Count(events, e) == Cardinality({i \in 1..Len(events) : events[i] = e})

\* C16: play() and playSprite(sound) on a sound that is playing change
\* nothing: the state, the positions, the armed timer and the node are as
\* they were, and no event is fired.
C16_PlayOnPlayingIsNoOp ==
  \A snd \in SoundArgs :
    isPlaying(sound) => Play(Quiet(sound), snd, clock) = Quiet(sound)

C16_Witness ==
  /\ lastOp.op = "play" /\ lastOp.note = "playing"
  /\ isPlaying(sound) /\ sound.node /\ sound.endTimer # NoTimer
  /\ sound.fired = <<>>

\* C17: play() on a sound that is not loaded queues the play and has the load
\* running, the state is as it was and no `play` is fired; when that load
\* succeeds the queued play runs: the sound is playing and `play` was fired
\* exactly once.
C17_QueuedPlayRunsOnLoad ==
  \A snd \in SoundArgs :
    (~isLoaded(sound) /\ ~isPlaying(sound)) =>
      LET S1 == Play(Quiet(sound), snd, clock)
          S2 == LoadSucceeded(Quiet(S1), clock)
      IN /\ S1.state = sound.state
         /\ S1.loadState = "loading"
         /\ Count(S1.queue, PlayIntent(snd, TRUE)) = 1
         /\ Count(S1.fired, "play") = 0
         /\ isPlaying(S2)
         /\ S2.queue = <<>>
         /\ Count(S2.fired, "play") = 1

C17_Witness ==
  /\ lastOp.op = "loaded" /\ lastOp.note = "replayed"
  /\ isPlaying(sound) /\ isLoaded(sound)
  /\ Count(sound.fired, "play") = 1

\* C18 (as claimed): the end timer firing on a playing sound that loops fires
\* `playend` then `playstart`, leaves it playing with its seek at the start of
\* the region, and arms the timer for (duration of the region / rate) * 1000.
C18_Claimed_LoopRearmsFullRegion ==
  (isPlaying(sound) /\ sound.loop /\ sound.endTimer # NoTimer) =>
    LET S1 == TimerFired(Quiet(sound), clock)
    IN /\ S1.fired = <<"playend", "playstart">>
       /\ isPlaying(S1)
       /\ S1.seek = sound.startPos
       /\ S1.endTimer = Div((sound.endPos - sound.startPos) * 1000, sound.rate)

\* C19 (as claimed): the end timer firing on a playing sound that does not
\* loop resets the positions to 0, leaves no node and no timer, the sound
\* idle, and fires `playend` and nothing else.
C19_Claimed_EndResetsPosition ==
  (isPlaying(sound) /\ ~sound.loop /\ sound.endTimer # NoTimer) =>
    LET S1 == TimerFired(Quiet(sound), clock)
    IN /\ S1.seek = 0 /\ S1.rateSeek = 0 /\ S1.elapsed = 0
       /\ SeekPos(S1, clock) = 0
       /\ ~S1.node
       /\ S1.endTimer = NoTimer
       /\ S1.state = "idle"
       /\ S1.fired = <<"playend">>

\* C20 (as claimed): rate(v) with v <= 0 or v > 5 changes nothing and fires
\* no event.
C20_Claimed_RateOutsideRangeIsNoOp ==
  \A v \in RateArgs :
    (sound.backend = "buffer" /\ (v <= 0 \/ v > MaxRate)) =>
      BufferRate(Quiet(sound), v, clock) = Quiet(sound)

\* C21 (as claimed): rate(r) with an accepted r on a playing sound leaves it
\* playing, fires one `rate` event, and arms the timer for the time that
\* remains to the end of the region at the current position, divided by r.
C21_Claimed_RateScalesRemainingTime ==
  \A r \in RateArgs :
    (sound.backend = "buffer" /\ isPlaying(sound) /\ r > 0 /\ r <= MaxRate) =>
      LET S1 == BufferRate(Quiet(sound), r, clock)
      IN /\ isPlaying(S1)
         /\ S1.fired = <<"rate">>
         /\ S1.endTimer = Div((sound.endPos - SeekPos(sound, clock)) * 1000, r)

\* C22 (as claimed): seek(p) with p negative or beyond the duration changes
\* nothing in any state: the queue is as it was and no download is started.
C22_Claimed_SeekOutOfRangeIsNoOp ==
  \A p \in SeekArgs :
    (sound.backend = "buffer" /\ (p < 0 \/ p > BufferDuration)) =>
      BufferSeek(Quiet(sound), p, clock) = Quiet(sound)

\* C22 (amended): seek(p) changes nothing when p is negative, in any state,
\* and when p is beyond the duration of a loaded sound.  On a sound that is not
\* loaded a position that is not negative is queued, and refused when the
\* queue runs if it is beyond the duration.
C22_SeekOutOfRangeIsNoOpOnceLoaded ==
  \A p \in SeekArgs :
    /\ (sound.backend = "buffer" /\ (p < 0 \/ (isLoaded(sound) /\ p > sound.duration))) =>
         BufferSeek(Quiet(sound), p, clock) = Quiet(sound)
    /\ (sound.backend = "buffer" /\ ~isLoaded(sound) /\ p > BufferDuration) =>
         LET S1 == BufferSeek(Quiet(sound), p, clock)
             S2 == LoadSucceeded(Quiet(BaseLoad(S1)), clock)
         IN /\ Count(S1.queue, SeekIntent(p)) = 1
            /\ S1.fired = <<>>
            /\ Count(S2.fired, "seek") = 0
            /\ S2.elapsed = sound.elapsed

C22_Witness ==
  /\ lastOp.op = "seek" /\ lastOp.note = "beyond"
  /\ isLoaded(sound) /\ isPlaying(sound)
  /\ sound.fired = <<>>

\* C23 (as claimed): seek(p) with 0 <= p <= duration on a loaded sound that
\* is playing leaves it playing, its node restarted at the offset p and the
\* position it reports p, and fires `seek` and nothing else; on a sound that is
\* not playing only the recorded position changes, to p, and `seek` is fired.
C23_Claimed_SeekRestartsAtPosition ==
  \A p \in SeekArgs :
    (sound.backend = "buffer" /\ isLoaded(sound) /\ p >= 0 /\ p <= sound.duration) =>
      LET S1 == BufferSeek(Quiet(sound), p, clock)
      IN /\ S1.fired = <<"seek">>
         /\ S1.state = sound.state
         /\ SeekPos(S1, clock) = p
         /\ isPlaying(sound) => (S1.node /\ S1.offset = p)
         /\ ~isPlaying(sound) => S1 = Fire([Quiet(sound) EXCEPT !.elapsed = p], "seek")

\* C24 (as claimed): pause() on a playing sound records the position, stops
\* the node, clears the timer and leaves the sound paused; play() then starts
\* the node at the recorded position, and stop() resets the position to 0 and
\* leaves the sound idle.
C24_Claimed_PauseResumesAtPosition ==
  isPlaying(sound) =>
    LET paused == BasePause(Quiet(sound), TRUE, clock)
        resumed == Play(Quiet(paused), NoSprite, clock)
        stopped == BaseStop(Quiet(paused), TRUE)
    IN /\ paused.elapsed = SeekPos(sound, clock)
       /\ ~paused.node /\ paused.endTimer = NoTimer /\ isPaused(paused)
       /\ isPlaying(resumed) /\ resumed.node
       /\ resumed.offset = paused.elapsed
       /\ stopped.elapsed = 0 /\ SeekPos(stopped, clock) = 0
       /\ stopped.state = "idle"

\* C25 (as claimed): what is called on a sound that is not loaded is held, one
\* slot for each kind, and run once, in the order of the calls, when the load
\* is over, which leaves the queue empty; a seek made before the load is run
\* once the load it started is over.
C25_Claimed_QueueRunsWhenLoaded ==
  /\ \A kind \in {"play", "seek"} :
       Cardinality({i \in 1..Len(sound.queue) : sound.queue[i].kind = kind}) <= 1
  /\ isLoaded(sound) => sound.queue = <<>>
  /\ sound.loadState = "loading" =>
       LET S1 == LoadSucceeded(Quiet(sound), clock)
       IN /\ S1.queue = <<>>
          /\ Count(S1.fired, "play") = Count(sound.queue, PlayIntent(NoSprite, TRUE))
                                       + Count(sound.queue, PlayIntent(SpriteName, TRUE))
  /\ (lastOp.op = "downloaded") => sound.queue = <<>>

\* C26 (as claimed): the load of a streaming sound (a load with no group)
\* failing hands the error to the sound, releases the handle, starts no other
\* load and leaves the other resources as they were.
C26_Claimed_FailedLoadReleasesHandle ==
  \A i \in 1..Len(loads) :
    (InFlight(i) /\ loads[i].groupId = NoGroup) =>
      LET L == error(Now, loads[i].audio) IN
      /\ ResultOf(L.loads[i]).error
      /\ Len(L.loads) = Len(loads)
      /\ \A u \in DOMAIN resourceNodesMap : u # loads[i].url => 
           (u \in DOMAIN L.map /\ L.map[u] = resourceNodesMap[u])
      /\ HandleCount(L.map, loads[i].url) < HandleCount(resourceNodesMap, loads[i].url)

(* ------------------------------ the engine ----------------------------- *)
(* Engine.js is modelled from its source.  Its Queue (add, run, remove,     *)
(* clear) is not part of the available sources and is written from the       *)
(* design document.                                                          *)

EngineStates ==
  {"notready", "ready", "suspending", "suspended", "resuming", "destroying", "done",
   "no-audio"}

\* The engine with the record of its last call emptied.
QuietE(E) == [E EXCEPT !.trail = <<>>, !.fired = <<>>, !.result = "ok"]

\* this._state = state
SetState(E, state) == [E EXCEPT !.state = state, !.trail = Append(@, state)]

\* this._fire(event)
FireE(E, event) == [E EXCEPT !.fired = Append(@, event)]

\* Queue.add(phase, key, fn): one action for each key of a phase.
QueueAdd(q, key) == IF \E i \in 1..Len(q) : q[i] = key THEN q ELSE Append(q, key)

\* The volumes the model calls with: 0 and 1 are within 0.0 .. 1.0.
VolumeArgs == {-1, 0, 1, 2}

\* Engine.setup(args): `available` and `ctxState` are what utility.getContext()
\* returns, a context or none, running or suspended; args.volume is taken when
\* it is within 0 .. 1, args.muted when it is a boolean.
setupWith(E, available, ctxState, args) ==
  IF E.state # "notready" THEN E
  ELSE IF ~available THEN FireE(SetState(E, "no-audio"), "error")
  ELSE LET vol == IF args.volume >= 0 /\ args.volume <= 1 THEN args.volume ELSE E.volume
       IN SetState([E EXCEPT !.ctx = ctxState, !.volume = vol, !.muted = args.muted,
                             !.bufferLoader = "live", !.mediaLoader = "live",
                             !.gain = TRUE,
                             !.gainValue = IF args.muted THEN 0 ELSE vol,
                             !.interval = TRUE],
                   IF ctxState # "suspended" THEN "ready" ELSE "suspended")

\* Engine.setup() with no arguments.
setup(E, available, ctxState) ==
  setupWith(E, available, ctxState, [volume |-> E.volume, muted |-> E.muted])

\* The buzzes of _buzzesArray, the sounds of _soundsArray.
Buzz(b) == <<"buzz", b>>

Sound(n) == <<"sound", n>>

TrackedBuzzes(E) == {E.buzzes[i] : i \in 1..Len(E.buzzes)}

TrackedSounds(E) == {E.sounds[i] : i \in 1..Len(E.sounds)}

\* terminate: the closure cleanUp.  It destroys the buzzes of _buzzesArray
\* and empties it, and leaves _soundsArray alone.
TerminateCleanUp(E) ==
  FireE(SetState([E EXCEPT !.interval = FALSE,
                           !.destroyed = @ \cup TrackedBuzzes(E),
                           !.playing = @ \ TrackedBuzzes(E),
                           !.bufferLoader = IF @ = "none" THEN @ ELSE "disposed",
                           !.mediaLoader = IF @ = "none" THEN @ ELSE "disposed",
                           !.buzzes = <<>>,
                           !.ctx = "none", !.afterSuspend = <<>>, !.afterResume = <<>>,
                           !.teardowns = IF @ < 2 THEN @ + 1 ELSE @],
                 "done"),
        "done")

\* Engine.stop() with no id: `this.buzzes().forEach(buzz => buzz.stop())`.
StopAll(E) == FireE([E EXCEPT !.playing = @ \ TrackedBuzzes(E)], "stop")

\* terminate that does not wait for a suspend or a resume in flight.
terminate_NoWait(E) ==
  IF E.state = "done" \/ E.state = "destroying" THEN E
  ELSE IF E.ctx # "none"
  THEN [SetState(E, "destroying") EXCEPT !.closeP = TRUE]
  ELSE TerminateCleanUp(SetState(E, "destroying"))

\* terminate that does not look for Done and Destroying first.
terminate_NoGuard(E) ==
  IF E.ctx # "none"
  THEN IF E.state = "suspending" THEN [E EXCEPT !.afterSuspend = <<"destroy">>]
       ELSE IF E.state = "resuming" THEN [E EXCEPT !.afterResume = <<"destroy">>]
       ELSE [SetState(E, "destroying") EXCEPT !.closeP = TRUE]
  ELSE TerminateCleanUp(SetState(E, "destroying"))

\* Engine.terminate()
terminate(E) ==
  IF E.state = "done" \/ E.state = "destroying" THEN E
  ELSE IF E.ctx # "none"
  THEN IF E.state = "suspending" THEN [E EXCEPT !.afterSuspend = <<"destroy">>]
       ELSE IF E.state = "resuming" THEN [E EXCEPT !.afterResume = <<"destroy">>]
       ELSE [SetState(E, "destroying") EXCEPT !.closeP = TRUE]
  ELSE TerminateCleanUp(SetState(E, "destroying"))

\* suspend that does not wait for a resume in flight.
suspend_NoWait(E) ==
  IF E.state # "ready" /\ E.state # "resuming" THEN E
  ELSE [SetState(StopAll(E), "suspending") EXCEPT !.suspendP = TRUE]

\* Engine.suspend()
suspend(E) ==
  IF E.state = "resuming" THEN [E EXCEPT !.afterResume = QueueAdd(@, "suspend")]
  ELSE IF E.state # "ready" THEN E
  ELSE [SetState(StopAll(E), "suspending") EXCEPT !.suspendP = TRUE]

\* Engine.resume()
resume(E) ==
  IF E.state = "suspending" THEN [E EXCEPT !.afterSuspend = QueueAdd(@, "resume")]
  ELSE IF E.state # "suspended" THEN E
  ELSE [SetState(E, "resuming") EXCEPT !.resumeP = TRUE]

\* Queue.run(phase): the actions of the phase, in their order, each run once.
RECURSIVE RunActions(_, _)
RunActions(E, keys) ==
  IF keys = <<>> THEN E
  ELSE LET E1 == IF Head(keys) = "suspend" THEN suspend(E)
                 ELSE IF Head(keys) = "resume" THEN resume(E)
                 ELSE terminate(E)
       IN RunActions(E1, Tail(keys))

\* this._context.suspend().then(...)
SuspendDone(E) ==
  LET E1 == SetState([E EXCEPT !.suspendP = FALSE, !.ctx = "suspended"], "suspended")
      E2 == RunActions([E1 EXCEPT !.afterSuspend = <<>>], E1.afterSuspend)
  IN FireE(E2, "suspend")

\* this._context.resume().then(...)
ResumeDone(E) ==
  LET E1 == SetState([E EXCEPT !.resumeP = FALSE, !.ctx = "running"], "ready")
      E2 == RunActions([E1 EXCEPT !.afterResume = <<>>], E1.afterResume)
  IN FireE(E2, "resume")

\* this._context.close().then(() => TerminateCleanUp())
CloseDone(E) == TerminateCleanUp([E EXCEPT !.closeP = FALSE])

\* Engine.mute() and unmute() with no id: a TypeError without a gain node or
\* without a context.
mute(E, muted) ==
  IF E.muted = muted THEN E
  ELSE IF ~E.gain \/ E.ctx = "none" THEN [E EXCEPT !.result = "TypeError"]
  ELSE FireE([E EXCEPT !.gainValue = IF muted THEN 0 ELSE E.volume, !.muted = muted],
             "mute")

\* volume that sets the gain whether the engine is muted or not.
volume_IgnoresMuted(E, vol) ==
  IF vol < 0 \/ vol > 1 THEN E
  ELSE IF ~E.gain \/ E.ctx = "none" THEN [E EXCEPT !.result = "TypeError"]
  ELSE FireE([E EXCEPT !.gainValue = vol, !.volume = vol], "volume")

\* Engine.volume(vol) with a number.
volume(E, vol) ==
  IF vol < 0 \/ vol > 1 THEN E
  ELSE IF ~E.gain \/ E.ctx = "none" THEN [E EXCEPT !.result = "TypeError"]
  ELSE FireE([E EXCEPT !.gainValue = IF E.muted THEN 0 ELSE vol, !.volume = vol],
             "volume")

\* The state a call on the engine leaves.
BecomesE(E, op) ==
  /\ engine' = E
  /\ lastOp' = op
  /\ UNCHANGED <<maxNodesPerSource, resourceNodesMap, bufferingAudios, loaderVars, soundVars>>

\* The call, and the state it was made in.
EngineOp(op) == MkOp(op, Ok, engine.state, 0, NoGroup, Null)

EngineSetup(available, ctxState, args) ==
  BecomesE(setupWith(QuietE(engine), available, ctxState, args), EngineOp("setup"))

EngineSuspend == BecomesE(suspend(QuietE(engine)), EngineOp("suspend"))

EngineResume == BecomesE(resume(QuietE(engine)), EngineOp("resume"))

EngineTerminate == BecomesE(terminate(QuietE(engine)), EngineOp("terminate"))

EngineMute(muted) == BecomesE(mute(QuietE(engine), muted), EngineOp("mute"))

EngineVolume(vol) == BecomesE(volume(QuietE(engine), vol), EngineOp("volume"))

EngineSuspendCompletes ==
  /\ engine.suspendP
  /\ BecomesE(SuspendDone(QuietE(engine)), EngineOp("suspended"))

EngineResumeCompletes ==
  /\ engine.resumeP
  /\ BecomesE(ResumeDone(QuietE(engine)), EngineOp("resumed"))

EngineCloseCompletes ==
  /\ engine.closeP
  /\ BecomesE(CloseDone(QuietE(engine)), EngineOp("closed"))

EngineInit ==
  /\ maxNodesPerSource = MaxNodesLimit
  /\ resourceNodesMap = EmptyMap
  /\ bufferingAudios = <<>>
  /\ lastOp = MkOp("new", Ok, "", 0, NoGroup, Null)
  /\ disposed = FALSE
  /\ loads = <<>>
  /\ batch = [urls |-> <<>>, ids |-> <<>>]
  /\ sound = NoSoundYet
  /\ clock = 0
  /\ engine = NewEngine

EngineNext ==
  \/ \E available \in BOOLEAN, ctxState \in {"running", "suspended"},
          vol \in VolumeArgs, muted \in BOOLEAN :
       EngineSetup(available, ctxState, [volume |-> vol, muted |-> muted])
  \/ EngineSuspend
  \/ EngineResume
  \/ EngineTerminate
  \/ \E muted \in BOOLEAN : EngineMute(muted)
  \/ \E vol \in VolumeArgs : EngineVolume(vol)
  \/ EngineSuspendCompletes
  \/ EngineResumeCompletes
  \/ EngineCloseCompletes

EngineSpec == EngineInit /\ [][EngineNext]_vars

\* The promises of the context complete.
EngineFairSpec ==
  /\ EngineSpec
  /\ WF_vars(EngineSuspendCompletes)
  /\ WF_vars(EngineResumeCompletes)
  /\ WF_vars(EngineCloseCompletes)

(* ------------------------ the claims of the engine ---------------------- *)

\* The changes of state of the design document.
LifecycleGraph ==
  {<<"notready", "ready">>, <<"notready", "no-audio">>,
   <<"ready", "suspending">>, <<"suspending", "suspended">>,
   <<"suspended", "resuming">>, <<"resuming", "ready">>,
   <<"ready", "destroying">>, <<"suspended", "destroying">>,
   <<"destroying", "done">>}

\* What setup, suspend, resume, terminate and the promises in flight can make
\* of the engine.
LifecycleCalls(E) ==
  {setup(E, a, c) : a \in BOOLEAN, c \in {"running", "suspended"}}
    \cup {suspend(E), resume(E), terminate(E)}
    \cup (IF E.suspendP THEN {SuspendDone(E)} ELSE {})
    \cup (IF E.resumeP THEN {ResumeDone(E)} ELSE {})
    \cup (IF E.closeP THEN {CloseDone(E)} ELSE {})

\* The states the engine went through in a call, the one it was in first.
PathOf(E, R) == <<E.state>> \o R.trail

\* C27 (as claimed): every change of state made by setup, suspend, resume,
\* terminate and the completions of the promises is an edge of the graph.
C27_Claimed_LifecycleFollowsGraph ==
  \A R \in LifecycleCalls(QuietE(engine)) :
    \A k \in 1..(Len(PathOf(engine, R)) - 1) :
      <<PathOf(engine, R)[k], PathOf(engine, R)[k + 1]>> \in LifecycleGraph

\* The action waits in the queue.
Queued(q, key) == \E i \in 1..Len(q) : q[i] = key

TerminateWaits ==
  /\ (engine.state = "suspending") =>
       LET E1 == terminate(QuietE(engine))
           E2 == SuspendDone(QuietE(E1))
       IN /\ E1.trail = <<>> /\ ~E1.closeP
          /\ E2.trail = <<"suspended", "destroying">> /\ E2.closeP
  /\ (engine.state = "resuming") =>
       LET E1 == terminate(QuietE(engine))
           E2 == ResumeDone(QuietE(E1))
       IN /\ E1.trail = <<>> /\ ~E1.closeP
          /\ E2.trail = <<"ready", "destroying">> /\ E2.closeP
  /\ (engine.state \in {"notready", "ready", "suspended"}) =>
       Head(terminate(QuietE(engine)).trail) = "destroying"
  /\ engine.closeP =>
       LET E1 == CloseDone(QuietE(engine))
       IN E1.trail = <<"done">> /\ E1.fired = <<"done">>

\* A destruction is under way or waits in the queue.
Terminating ==
  \/ engine.state = "destroying"
  \/ Queued(engine.afterSuspend, "destroy")
  \/ Queued(engine.afterResume, "destroy")

\* C29: terminate() called during a suspend or a resume does not enter
\* Destroying before that is over, and enters it then; called in another state
\* that is not the end it enters it at once; and with the promises of the
\* context completing the engine gets to Done and fires `done`.
C29_TerminateWaitsThenDone ==
  /\ []TerminateWaits
  /\ Terminating ~> (engine.state = "done")

\* The suspend is over and the terminate() that waited for it has started.
C29_Witness ==
  /\ lastOp.op = "suspended"
  /\ engine.trail = <<"suspended", "destroying">>
  /\ engine.closeP

\* C30 (as claimed): setup with no audio leaves the engine in NoAudio with an
\* `error` fired, and no call changes the state from then on.
C30_Claimed_NoAudioIsTerminal ==
  /\ (engine.state = "notready") =>
       \A c \in {"running", "suspended"} :
         LET E1 == setup(QuietE(engine), FALSE, c)
         IN E1.state = "no-audio" /\ E1.fired = <<"error">>
  /\ (engine.state = "no-audio") =>
       \A R \in LifecycleCalls(QuietE(engine))
                  \cup {mute(QuietE(engine), TRUE), volume(QuietE(engine), 1)} :
         R.state = "no-audio"

\* ---- The master gain ---------------------------------------------------------

\* What the gain node is set to for a muted flag and a volume.
GainFor(muted, vol) == IF muted THEN 0 ELSE vol

\* C31: once setup has made the gain node, its gain is 0 while the engine is
\* muted and the master volume otherwise, after any mute(), unmute() and
\* volume(v); volume(v) with v outside 0..1 changes nothing and fires nothing;
\* mute() and unmute() fire "mute" only when they change the muted flag.
C31_GainFollowsMutedAndVolume ==
  /\ engine.gain => engine.gainValue = GainFor(engine.muted, engine.volume)
  /\ \A vol \in VolumeArgs :
       LET R == volume(QuietE(engine), vol)
       IN /\ R.gain => R.gainValue = GainFor(R.muted, R.volume)
          /\ (vol < 0 \/ vol > 1) => R = QuietE(engine)
  /\ \A m \in BOOLEAN :
       LET R == mute(QuietE(engine), m)
       IN /\ R.gain => R.gainValue = GainFor(R.muted, R.volume)
          /\ R.fired # <<>> => (R.fired = <<"mute">> /\ R.muted # engine.muted)
          /\ R.muted = engine.muted => R = [QuietE(engine) EXCEPT !.result = R.result]

\* volume(1) was called while the engine was muted
C31_Witness ==
  /\ lastOp.op = "volume"
  /\ engine.fired = <<"volume">>
  /\ engine.muted
  /\ engine.volume = 1
  /\ engine.gainValue = 0

\* ---- The sounds the engine tracks --------------------------------------------

NumBuzzes == 2

MaxCreated == 1

AllBuzzes == {Buzz(b) : b \in 1..NumBuzzes}

\* Array.prototype.indexOf: the position of x in q, from 1, 0 when absent.
IndexOf(q, x) ==
  IF \E i \in 1..Len(q) : q[i] = x
  THEN CHOOSE i \in 1..Len(q) : q[i] = x /\ \A j \in 1..(i - 1) : q[j] # x
  ELSE 0

\* q without its element at position i
Without(q, i) == [j \in 1..(Len(q) - 1) |-> IF j < i THEN q[j] ELSE q[j + 1]]

\* Array.prototype.splice(start, 1) with start = indexOf(x): a start of -1,
\* the answer of indexOf for an absent x, counts from the end of the array.
SpliceAtIndexOf(q, x) ==
  IF IndexOf(q, x) # 0 THEN Without(q, IndexOf(q, x))
  ELSE IF q = <<>> THEN q
  ELSE Without(q, Len(q))

\* Engine.add(buzz)
add(E, buzz) ==
  IF IndexOf(E.buzzes, buzz) # 0 THEN E
  ELSE [E EXCEPT !.buzzes = Append(@, buzz)]

\* remove that leaves the collection alone for a buzz that is not in it
remove_OnlyIfTracked(E, buzz) ==
  IF IndexOf(E.buzzes, buzz) = 0 THEN E
  ELSE [E EXCEPT !.buzzes = Without(@, IndexOf(@, buzz))]

\* Engine.remove(buzz)
remove(E, buzz) == [E EXCEPT !.buzzes = SpliceAtIndexOf(@, buzz)]

\* Engine.create(soundArgs): the sound goes to _soundsArray.
create(E) == [E EXCEPT !.sounds = Append(@, Sound(Len(@) + 1))]

\* A buzz, or a sound the engine created (Engine.play(id)), starts to play.
Plays(E, x) == [E EXCEPT !.playing = @ \cup {x}]

TrackOp(op, n) == MkOp(op, Ok, engine.state, 0, NoGroup, n)

EngineAdd(b) == BecomesE(add(QuietE(engine), Buzz(b)), TrackOp("add", b))

EngineRemove(b) == BecomesE(remove(QuietE(engine), Buzz(b)), TrackOp("remove", b))

EngineCreate ==
  /\ Len(engine.sounds) < MaxCreated
  /\ BecomesE(create(QuietE(engine)), TrackOp("create", Len(engine.sounds) + 1))

BuzzPlays(b) ==
  /\ Buzz(b) \notin engine.destroyed
  /\ BecomesE(Plays(QuietE(engine), Buzz(b)), TrackOp("buzz.play", b))

EnginePlay(n) ==
  /\ Sound(n) \in TrackedSounds(engine)
  /\ BecomesE(Plays(QuietE(engine), Sound(n)), TrackOp("play", n))

TrackingNext ==
  \/ EngineNext
  \/ \E b \in 1..NumBuzzes : EngineAdd(b)
  \/ \E b \in 1..NumBuzzes : EngineRemove(b)
  \/ EngineCreate
  \/ \E b \in 1..NumBuzzes : BuzzPlays(b)
  \/ \E n \in 1..MaxCreated : EnginePlay(n)

TrackingSpec == EngineInit /\ [][TrackingNext]_vars

\* C37: the buzzes collection never holds a buzz twice and add(buzz) of a buzz
\* it holds changes nothing; remove(buzz) takes away that buzz and no other,
\* and leaves the collection as it was when the buzz is not in it.
C37_Claimed_RemoveTakesOnlyThatBuzz ==
  /\ \A i, j \in 1..Len(engine.buzzes) : engine.buzzes[i] = engine.buzzes[j] => i = j
  /\ \A x \in AllBuzzes :
       /\ x \in TrackedBuzzes(engine) => add(engine, x) = engine
       /\ remove(engine, x).buzzes = SelectSeq(engine.buzzes, LAMBDA y : y # x)

\* The buzzes and the sounds the engine holds.
Tracked(E) == TrackedBuzzes(E) \cup TrackedSounds(E)

\* C32 (as claimed): suspend() first stops every sound: in the call that
\* enters Suspending no buzz given to add and no sound made with create is
\* left playing, and `stop` is fired, before anything else of that call.
C32_Claimed_SuspendStopsEverySound ==
  (\E i \in 1..Len(engine.trail) : engine.trail[i] = "suspending") =>
    /\ engine.playing \cap Tracked(engine) = {}
    /\ engine.fired # <<>>
    /\ engine.fired[1] = "stop"

\* C33 (as claimed): the step that enters Done leaves every buzz and every
\* created sound the engine held destroyed, both loaders disposed, the
\* interval of the sweep cleared and the queue empty.
C33_Claimed_DoneLeavesNothing ==
  [][(engine.state # "done" /\ engine'.state = "done") =>
       /\ Tracked(engine) \subseteq engine'.destroyed
       /\ engine'.bufferLoader # "live"
       /\ engine'.mediaLoader # "live"
       /\ ~engine'.interval
       /\ engine'.afterSuspend = <<>>
       /\ engine'.afterResume = <<>>]_vars

\* How many times x is in q.
Times(q, x) == Cardinality({i \in 1..Len(q) : q[i] = x})

\* C38: the teardown runs once at most and `done` is fired once at most;
\* terminate() in Destroying and in Done changes nothing; terminate() again
\* while a suspend or a resume is in flight leaves one destruction waiting;
\* setup() in a state other than NotReady changes nothing.
C38_TeardownOnceAndGuardedCalls ==
  /\ engine.teardowns <= 1
  /\ Times(engine.fired, "done") <= 1
  /\ Times(engine.fired, "done") = 1 => engine.teardowns = 1
  /\ engine.state \in {"destroying", "done"} =>
       terminate(QuietE(engine)) = QuietE(engine)
  /\ engine.state \in {"suspending", "resuming"} =>
       LET R == terminate(terminate(QuietE(engine)))
       IN /\ R = terminate(QuietE(engine))
          /\ Times(R.afterSuspend \o R.afterResume, "destroy") = 1
          /\ R.teardowns = engine.teardowns
  /\ Times(engine.afterSuspend \o engine.afterResume, "destroy") <= 1
  /\ engine.state # "notready" =>
       \A available \in BOOLEAN, ctxState \in {"running", "suspended"},
          vol \in VolumeArgs, muted \in BOOLEAN :
         setupWith(QuietE(engine), available, ctxState, [volume |-> vol, muted |-> muted])
           = QuietE(engine)

\* terminate() is called on an engine that is Done
C38_Witness ==
  /\ lastOp.op = "terminate"
  /\ lastOp.note = "done"
  /\ engine.state = "done"
  /\ engine.teardowns = 1
  /\ engine.fired = <<>>

\* ---- The buffering list and the loads in flight ------------------------------

\* The entry _load pushes for a load.
EntryOf(l) == [url |-> l.url, groupId |-> l.groupId, audio |-> l.audio]

\* The entries of b that are not of the element a.
NotOf(b, a) == SelectSeq(b, LAMBDA e : e.audio # a)

\* C34 (as claimed): a load that starts and is not settled at once adds its
\* entry to the buffering list and one that is settled at once leaves the list
\* as it was, also with a reused element that is ready; the `canplaythrough`
\* and the `error` of an element take the entries of the loads on that element
\* off the list and no other entry.
C34_Claimed_OneEntryPerLoadInFlight ==
  ~disposed =>
    /\ \A url \in Urls, g \in Groups \cup {NoGroup}, ready \in BOOLEAN :
         LET L == LoadOne(Now, url, g, ready)
             l == L.loads[Len(L.loads)]
         IN /\ l.promise = "pending" => L.buffering = Append(bufferingAudios, EntryOf(l))
            /\ l.promise # "pending" => L.buffering = bufferingAudios
    /\ \A a \in LoadAudios(loads) :
         /\ NotOf(canplaythrough(Now, a).buffering, a) = NotOf(bufferingAudios, a)
         /\ NotOf(error(Now, a).buffering, a) = NotOf(bufferingAudios, a)
         /\ a \notin BufferedAudios(canplaythrough(Now, a).buffering)
         /\ a \notin BufferedAudios(error(Now, a).buffering)

\* C35 (as claimed): releaseForGroup(url, g, free) takes off the buffering list
\* the loads of group g for that url and leaves the other entries, those of
\* other groups, those with no group and those of g for another url; in the
\* pool nothing but the group g of url changes.
C35_Claimed_ReleaseCancelsOnlyUrlAndGroup ==
  \A url \in Urls, g \in Groups, free \in BOOLEAN :
    LET r == releaseForGroup(resourceNodesMap, bufferingAudios, url, g, free) IN
    /\ r.buffering =
         SelectSeq(bufferingAudios, LAMBDA e : ~(e.url = url /\ e.groupId = g))
    /\ DOMAIN r.map = DOMAIN resourceNodesMap
    /\ \A u \in DOMAIN resourceNodesMap :
         /\ r.map[u].unallocated = resourceNodesMap[u].unallocated
         /\ \A h \in DOMAIN resourceNodesMap[u].allocated :
              (u # url \/ h # g) =>
                /\ h \in DOMAIN r.map[u].allocated
                /\ r.map[u].allocated[h] = resourceNodesMap[u].allocated[h]

\* ---- The end timer and the node of a buffer sound ----------------------------

====
